---- MODULE Spec2Model ----
(***************************************************************************)
(* Pixel-wise lifted multicut: the disjoint-set engine, the pixel-wise     *)
(* objective (evaluate) and the connected-components fusion engine (fuse). *)
(* Arrays are functions over coordinate tuples; energies are integers      *)
(* (sums of integer-valued float weights are exact in double precision).   *)
(***************************************************************************)
EXTENDS Integers, Sequences, FiniteSets, TLC

VARIABLES
    bufd,           \* BoostUfd: [parents, ranks]
    related,        \* ghost: equivalence closure of the pairs merged so far
    lastOp,         \* ghost: the last BoostUfd call and what it returned
    objective_,     \* PixelWiseLmcObjective: [dim, shape, offsets, weights,
                    \*                         n_offsets, n_variables]
    labels,         \* the labelings handed to evaluate / fuse (a sequence)
    energy,         \* what evaluate returned for each of them
    pc,             \* position inside the running call
    form,           \* which fuse overload runs: "ab" (two candidates) or "k"
    ufd_,           \* the fusion engine's forest: [parents, ranks, numberOfSets]
    res,            \* fuse's result tensor
    to_dense,       \* _build_: root -> dense component id
    cc_graph,       \* _build_: [n, edges] of the contracted graph
    cc_obj,         \* _build_: lifted edge -> accumulated cost
    cc_node_labels, \* _build_: the solver's component labeling
    e_res,          \* _build_: energy of cc_node_labels on cc_obj
    best,           \* K-candidate callback: [e |-> best_e, i |-> best_i]
    solver,         \* "none", "live" or "deleted"
    calls,          \* fuse calls started on this engine instance
    dirty,          \* ghost: the forest held merged sets when this call began
    winner,         \* ghost: branch the selection callback took
    solver_calls,   \* ghost: [create, optimize, release] calls of the running call
    error,          \* the error the running call raised to its caller, or "none"
    edge_gt,        \* pixel_wise_lmc_edge_gt_2d: [gt, offsets, result]
    engines,        \* two fusion engines on one objective: [eng, forest]
    merge_log       \* ghost: the merge(x, y) calls made so far, in call order

ufdVars == <<bufd, related, lastOp>>

objVars == <<objective_, labels, energy, pc>>

fuseVars == <<form, ufd_, res, to_dense, cc_graph, cc_obj, cc_node_labels,
              e_res, best, solver, calls, dirty, winner>>

errVars == <<solver_calls, error>>

extVars == <<edge_gt, engines, merge_log>>

vars == <<bufd, related, lastOp, objective_, labels, energy, pc,
          form, ufd_, res, to_dense, cc_graph, cc_obj, cc_node_labels,
          e_res, best, solver, calls, dirty, winner,
          solver_calls, error, edge_gt, engines, merge_log>>

(***************************************************************************)
(* Bounds                                                                  *)
(***************************************************************************)
UfdSize == 4

Elems == 0 .. (UfdSize - 1)

(***************************************************************************)
(* BoostUfd (boost::disjoint_sets over parents_ / ranks_)                  *)
(***************************************************************************)

\* BoostUfd(size): make_set(elem) for every elem in [0, size)
BoostUfdInit(size) ==
    [parents |-> [e \in 0 .. (size - 1) |-> e],
     ranks   |-> [e \in 0 .. (size - 1) |-> 0]]

\* the representative find_set returns: follows parents up to the root
RECURSIVE BoostFindRoot(_, _)
BoostFindRoot(parents, elem) ==
    IF parents[elem] = elem THEN elem
    ELSE BoostFindRoot(parents, parents[elem])

\* the elements on the parent path from elem up to (excluding) the root
RECURSIVE BoostPath(_, _)
BoostPath(parents, elem) ==
    IF parents[elem] = elem THEN {}
    ELSE {elem} \cup BoostPath(parents, parents[elem])

\* find_set's full path compression: every element on the path gets the root
BoostCompress(parents, elem) ==
    LET root == BoostFindRoot(parents, elem)
        path == BoostPath(parents, elem)
    IN  [e \in DOMAIN parents |-> IF e \in path THEN root ELSE parents[e]]

\* a find that stops at the parent instead of walking up to the root
BoostFindOneHop(u, elem) == u.parents[elem]

\* BoostUfd::find: the value sets_.find_set(elem) returns
BoostFind(u, elem) == BoostFindRoot(u.parents, elem)

\* BoostUfd::find: the forest sets_.find_set(elem) leaves behind
BoostFindState(u, elem) ==
    [u EXCEPT !.parents = BoostCompress(u.parents, elem)]

\* link on the raw arguments, without taking their representatives first
BoostMergeNoRep(u, elem1, elem2) ==
    IF elem1 = elem2 THEN u
    ELSE IF u.ranks[elem1] > u.ranks[elem2]
         THEN [u EXCEPT !.parents[elem2] = elem1]
         ELSE [parents |-> [u.parents EXCEPT ![elem1] = elem2],
               ranks   |-> IF u.ranks[elem1] = u.ranks[elem2]
                           THEN [u.ranks EXCEPT ![elem2] = @ + 1]
                           ELSE u.ranks]

\* BoostUfd::merge: sets_.link(elem1, elem2); link_sets takes the
\* representative of both arguments (compressing their paths), then links
\* the lower rank below the higher one
BoostMerge(u, elem1, elem2) ==
    LET p1 == BoostCompress(u.parents, elem1)
        i  == BoostFindRoot(u.parents, elem1)
        p2 == BoostCompress(p1, elem2)
        j  == BoostFindRoot(p1, elem2)
    IN  IF i = j THEN [u EXCEPT !.parents = p2]
        ELSE IF u.ranks[i] > u.ranks[j]
             THEN [u EXCEPT !.parents = [p2 EXCEPT ![j] = i]]
             ELSE [parents |-> [p2 EXCEPT ![i] = j],
                   ranks   |-> IF u.ranks[i] = u.ranks[j]
                               THEN [u.ranks EXCEPT ![j] = @ + 1]
                               ELSE u.ranks]

(***************************************************************************)
(* Ghost: the reflexive-symmetric-transitive closure of the merged pairs   *)
(***************************************************************************)
RECURSIVE TransClose(_)
TransClose(R) ==
    LET step == R \cup {<<a, c>> \in Elems \X Elems :
                            \E b \in Elems : <<a, b>> \in R /\ <<b, c>> \in R}
    IN  IF step = R THEN R ELSE TransClose(step)

EquivClosure(R) ==
    TransClose(R \cup {<<b, a>> : <<a, b>> \in R} \cup {<<a, a>> : a \in Elems})

NoOp == [op |-> "none", x |-> 0, y |-> 0, ret |-> 0, nonroot |-> FALSE,
         oob |-> FALSE, changed |-> FALSE]

\* the sum of f over a finite set
RECURSIVE SumOver(_, _)
SumOver(S, f) ==
    IF S = {} THEN 0
    ELSE LET x == CHOOSE y \in S : TRUE
         IN  f[x] + SumOver(S \ {x}, f)

(***************************************************************************)
(* Grids: coordinates, loop nests, row-major node ids                      *)
(***************************************************************************)
MaxLabel == 1

LabelVals == 0 .. MaxLabel

WeightVals == {-1, 2}

Prod(shape) ==
    IF Len(shape) = 2 THEN shape[1] * shape[2]
    ELSE shape[1] * shape[2] * shape[3]

\* for(p0 < n0) for(p1 < n1): the i-th position visited (i = node_p + 1)
Loop2(n0, n1) ==
    [i \in 1 .. (n0 * n1) |-> <<(i - 1) \div n1, (i - 1) % n1>>]

\* for(p0 < n0) for(p1 < n1) for(p2 < n2): the i-th position visited
Loop3(n0, n1, n2) ==
    [i \in 1 .. (n0 * n1 * n2) |->
        <<(i - 1) \div (n1 * n2), ((i - 1) \div n2) % n1, (i - 1) % n2>>]

Coords(shape) ==
    IF Len(shape) = 2
    THEN {<<a, b>> : a \in 0 .. (shape[1] - 1), b \in 0 .. (shape[2] - 1)}
    ELSE {<<a, b, c>> : a \in 0 .. (shape[1] - 1), b \in 0 .. (shape[2] - 1),
                        c \in 0 .. (shape[3] - 1)}

\* p + offset, componentwise
Shift(p, off) == [d \in 1 .. Len(p) |-> p[d] + off[d]]

InShape(shape, q) == \A d \in 1 .. Len(shape) : q[d] >= 0 /\ q[d] < shape[d]

\* the row-major node id of position p
NodeAt(shape, p) ==
    IF Len(shape) = 2 THEN p[1] * shape[2] + p[2]
    ELSE p[1] * shape[2] * shape[3] + p[2] * shape[3] + p[3]

\* the key of weights(p..., offset_index)
WKey(p, k) == p \o <<k>>

Labelings(shape) == [Coords(shape) -> LabelVals]

MaxWideHi == 2

IntMax == 2147483647

\* the unsigned 64-bit label value hi * 2^31 + lo, 0 <= lo < 2^31
Wide(hi, lo) == [hi |-> hi, lo |-> lo]

\* the labelings handed to the 3-D engine, label values below 2^31
Labelings3(shape) == [Coords(shape) -> {Wide(0, l) : l \in LabelVals}]

\* label values on both sides of 2^31 and 2^32
WideLabelVals == {Wide(h, l) : h \in 0 .. MaxWideHi, l \in {0}} \cup {Wide(0, 1)}

WideLabelings3(shape) == [Coords(shape) -> WideLabelVals]

\* the candidate labelings of a fuse call on obj
CandidateLabelings(obj) ==
    IF obj.dim = 2 THEN Labelings(obj.shape) ELSE Labelings3(obj.shape)

(***************************************************************************)
(* PixelWiseLmcObjective                                                   *)
(***************************************************************************)
NoObjective ==
    [dim |-> 0, shape |-> <<>>, offsets |-> <<>>, weights |-> <<>>,
     n_offsets |-> 0, n_variables |-> 0]

\* PixelWiseLmcObjective(e_weights, e_offsets): shape_ and n_offsets_ are read
\* from the weight tensor's shape, n_variables_ is the product of the extents
MkObjective(wshape, e_offsets, e_weights) ==
    LET DIM == Len(wshape) - 1
        shp == SubSeq(wshape, 1, DIM)
    IN  [dim         |-> DIM,
         shape       |-> shp,
         offsets     |-> e_offsets,
         weights     |-> e_weights,
         n_offsets   |-> wshape[DIM + 1],
         n_variables |-> Prod(shp)]

\* the weight tensors of one grid and offset list: every entry whose neighbor
\* is inside the grid ranges over vals, the others hold 2
WeightTensors(shape, offs, vals) ==
    LET keys == {WKey(p, k) : p \in Coords(shape), k \in 0 .. (Len(offs) - 1)}
    IN  {w \in [keys -> vals \cup {2}] :
            \A p \in Coords(shape), k \in 0 .. (Len(offs) - 1) :
                IF InShape(shape, Shift(p, offs[k + 1]))
                THEN w[WKey(p, k)] \in vals
                ELSE w[WKey(p, k)] = 2}

Family(shape, offsetLists, vals) ==
    UNION {{MkObjective(shape \o <<Len(offs)>>, offs, w) :
                w \in WeightTensors(shape, offs, vals)} : offs \in offsetLists}

\* the 2-D objectives of the model
Objectives2 ==
    Family(<<2, 2>>, {<< <<0, 1>> >>, << <<1, 0>> >>, << <<1, -1>> >>,
                      << <<0, 1>>, <<1, 0>> >>, << <<1, 1>>, <<-1, -1>> >>},
           WeightVals)
    \cup Family(<<1, 3>>, {<< <<0, 1>>, <<0, -1>> >>, << <<0, 1>>, <<0, 2>> >>},
                WeightVals)

\* the 3-D objectives of the model
Objectives3 ==
    Family(<<1, 1, 2>>, {<< <<0, 0, 1>>, <<0, 0, -1>> >>}, WeightVals)
    \cup Family(<<1, 2, 2>>, {<< <<0, 1, 0>> >>, << <<0, 0, 1>> >>, << <<0, 1, -1>> >>},
                WeightVals)
    \cup Family(<<2, 1, 2>>, {<< <<1, 0, 0>> >>, << <<-1, 0, 1>> >>}, WeightVals)

(***************************************************************************)
(* detail_plmc::EvalHelper<2> / EvalHelper<3>                              *)
(***************************************************************************)

\* a bounds test that also rejects neighbors in row 0
EvalInside2Strict(shape, q0, q1) ==
    q0 > 0 /\ q0 < shape[1] /\ q1 >= 0 /\ q1 < shape[2]

\* if(q0 >= 0 && q0 < shape[0] && q1 >= 0 && q1 < shape[1])
EvalInside2(shape, q0, q1) ==
    q0 >= 0 /\ q0 < shape[1] /\ q1 >= 0 /\ q1 < shape[2]

\* a label test that counts a pair only when label_p is the larger label
EvalDiffersGreater(label_p, label_q) == label_p > label_q

\* if(label_p != label_q)
EvalDiffers(label_p, label_q) == label_p # label_q

\* the offset loop of EvalHelper<2> at position (p0, p1), from offset_index on
RECURSIVE EvalOffsets2(_, _, _, _, _)
EvalOffsets2(obj, lab, p0, p1, offset_index) ==
    IF offset_index >= obj.n_offsets THEN 0
    ELSE LET q0 == p0 + obj.offsets[offset_index + 1][1]
             q1 == p1 + obj.offsets[offset_index + 1][2]
             add == IF EvalInside2(obj.shape, q0, q1)
                    THEN IF EvalDiffers(lab[<<p0, p1>>], lab[<<q0, q1>>])
                         THEN obj.weights[<<p0, p1, offset_index>>]
                         ELSE 0
                    ELSE 0
         IN  add + EvalOffsets2(obj, lab, p0, p1, offset_index + 1)

\* the position loop of EvalHelper<2>, from the i-th position on
RECURSIVE EvalLoop2(_, _, _)
EvalLoop2(obj, lab, i) ==
    IF i > obj.shape[1] * obj.shape[2] THEN 0
    ELSE LET p == Loop2(obj.shape[1], obj.shape[2])[i]
         IN  EvalOffsets2(obj, lab, p[1], p[2], 0) + EvalLoop2(obj, lab, i + 1)

EvalHelper2(obj, lab) == EvalLoop2(obj, lab, 1)

\* a bounds test that compares q2 with the second extent
EvalInside3Axis(shape, q0, q1, q2) ==
    /\ q0 >= 0 /\ q0 < shape[1]
    /\ q1 >= 0 /\ q1 < shape[2]
    /\ q2 >= 0 /\ q2 < shape[2]

\* if(q0 >= 0 && q0 < shape[0] && q1 >= 0 && q1 < shape[1] && q2 >= 0 && q2 < shape[2])
EvalInside3(shape, q0, q1, q2) ==
    /\ q0 >= 0 /\ q0 < shape[1]
    /\ q1 >= 0 /\ q1 < shape[2]
    /\ q2 >= 0 /\ q2 < shape[3]

RECURSIVE EvalOffsets3(_, _, _, _, _, _)
EvalOffsets3(obj, lab, p0, p1, p2, offset_index) ==
    IF offset_index >= obj.n_offsets THEN 0
    ELSE LET q0 == p0 + obj.offsets[offset_index + 1][1]
             q1 == p1 + obj.offsets[offset_index + 1][2]
             q2 == p2 + obj.offsets[offset_index + 1][3]
             add == IF EvalInside3(obj.shape, q0, q1, q2)
                    THEN IF EvalDiffers(lab[<<p0, p1, p2>>], lab[<<q0, q1, q2>>])
                         THEN obj.weights[<<p0, p1, p2, offset_index>>]
                         ELSE 0
                    ELSE 0
         IN  add + EvalOffsets3(obj, lab, p0, p1, p2, offset_index + 1)

RECURSIVE EvalLoop3(_, _, _)
EvalLoop3(obj, lab, i) ==
    IF i > obj.shape[1] * obj.shape[2] * obj.shape[3] THEN 0
    ELSE LET p == Loop3(obj.shape[1], obj.shape[2], obj.shape[3])[i]
         IN  EvalOffsets3(obj, lab, p[1], p[2], p[3], 0) + EvalLoop3(obj, lab, i + 1)

EvalHelper3(obj, lab) == EvalLoop3(obj, lab, 1)

\* PixelWiseLmcObjective::evaluate: EvalHelper<DIM>::evaluate(*this, e_labels)
evaluate(obj, lab) ==
    IF obj.dim = 2 THEN EvalHelper2(obj, lab) ELSE EvalHelper3(obj, lab)

(***************************************************************************)
(* nifty::ufd::Ufd, the forest of the fusion engine                        *)
(***************************************************************************)

\* Ufd(n): n singleton sets
UfdNew(n) ==
    [parents      |-> [e \in 0 .. (n - 1) |-> e],
     ranks        |-> [e \in 0 .. (n - 1) |-> 0],
     numberOfSets |-> n]

\* reset(): n singletons again
UfdReset(u) == UfdNew(Cardinality(DOMAIN u.parents))

\* find(x): the root of x
UfdFind(u, x) == BoostFindRoot(u.parents, x)

\* find(x): the forest after the path compression
UfdFindState(u, x) == [u EXCEPT !.parents = BoostCompress(u.parents, x)]

\* merge(x, y): union by rank of the sets containing x and y
UfdMerge(u, x, y) ==
    LET u1 == UfdFindState(u, x)
        rx == UfdFind(u, x)
        u2 == UfdFindState(u1, y)
        ry == UfdFind(u1, y)
    IN  IF rx = ry THEN u2
        ELSE IF u2.ranks[rx] < u2.ranks[ry]
             THEN [u2 EXCEPT !.parents[rx] = ry, !.numberOfSets = @ - 1]
        ELSE IF u2.ranks[rx] > u2.ranks[ry]
             THEN [u2 EXCEPT !.parents[ry] = rx, !.numberOfSets = @ - 1]
        ELSE [u2 EXCEPT !.parents[ry] = rx, !.ranks[rx] = @ + 1,
                        !.numberOfSets = @ - 1]

UfdRoots(u) == {e \in DOMAIN u.parents : u.parents[e] = e}

\* representativeLabeling(out): the roots, in increasing order, get 0, 1, ...
UfdRepresentativeLabeling(u) ==
    [r \in UfdRoots(u) |-> Cardinality({s \in UfdRoots(u) : s < r})]

\* find(var) for every var in turn: every element points at its root
UfdCompressAll(u) ==
    [u EXCEPT !.parents = [e \in DOMAIN u.parents |-> UfdFind(u, e)]]

(***************************************************************************)
(* PixelWiseLmcConnetedComponentsFusion<2>: merge_ufd                      *)
(***************************************************************************)

\* an agreement test with the comparisons inverted
AgreeABDiffer(la, lb, p, q) == la[p] # la[q] /\ lb[p] # lb[q]

\* an agreement test that looks at the first candidate only
AgreeABFirstOnly(la, lb, p, q) == la[p] = la[q]

\* if(p_label_a == q_label_a && p_label_b == q_label_b)
AgreeAB(la, lb, p, q) == la[p] = la[q] /\ lb[p] = lb[q]

\* the position loop of merge_ufd, from the i-th position on (node_p = i - 1)
RECURSIVE MergeUfdLoop2(_, _, _, _, _)
MergeUfdLoop2(shape, la, lb, u, i) ==
    IF i > shape[1] * shape[2] THEN u
    ELSE LET p      == Loop2(shape[1], shape[2])[i]
             p0     == p[1]
             p1     == p[2]
             node_p == i - 1
             u1 == IF p0 + 1 < shape[1] /\ AgreeAB(la, lb, p, <<p0 + 1, p1>>)
                   THEN UfdMerge(u, node_p, node_p + shape[2])
                   ELSE u
             u2 == IF p1 + 1 < shape[2] /\ AgreeAB(la, lb, p, <<p0, p1 + 1>>)
                   THEN UfdMerge(u1, node_p, node_p + 1)
                   ELSE u1
         IN  MergeUfdLoop2(shape, la, lb, u2, i + 1)

merge_ufd2D(obj, la, lb, u) == MergeUfdLoop2(obj.shape, la, lb, u, 1)

(***************************************************************************)
(* PixelWiseLmcConnetedComponentsFusion<2>: _build_                        *)
(***************************************************************************)

\* to_dense[key] of a flat_map: a missing key is inserted with the value 0
DenseAt(td, key) == IF key \in DOMAIN td THEN td[key] ELSE 0

\* a dense relabel that looks up the element instead of its root
DenseRes2NoFind(obj, u, td) ==
    [p \in Coords(obj.shape) |-> DenseAt(td, p[1] * obj.shape[2] + p[2])]

\* make map dense: *res_iter = to_dense[ufd_.find(var)] for every var
DenseRes2(obj, u, td) ==
    [p \in Coords(obj.shape) |->
        DenseAt(td, UfdFind(u, p[1] * obj.shape[2] + p[2]))]

\* build the normal graph: an edge for every axis-neighbor pair of positions
\* whose roots differ
CcEdges2(obj, u, td) ==
    LET n1 == obj.shape[2]
        node(p) == p[1] * n1 + p[2]
        down == {p \in Coords(obj.shape) : p[1] + 1 < obj.shape[1]
                    /\ UfdFind(u, node(p)) # UfdFind(u, node(p) + n1)}
        right == {p \in Coords(obj.shape) : p[2] + 1 < obj.shape[2]
                    /\ UfdFind(u, node(p)) # UfdFind(u, node(p) + 1)}
    IN  {{DenseAt(td, UfdFind(u, node(p))),
          DenseAt(td, UfdFind(u, node(p) + n1))} : p \in down}
        \cup {{DenseAt(td, UfdFind(u, node(p))),
               DenseAt(td, UfdFind(u, node(p) + 1))} : p \in right}

\* LiftedMulticutObjective(graph): every graph edge is a lifted edge of cost 0
CcObjNew(edges) == [e \in edges |-> 0]

\* a setCost that overwrites the cost of an existing edge
SetCostOverwrite(costs, a, b, w) ==
    [e \in DOMAIN costs \cup {{a, b}} |-> IF e = {a, b} THEN w ELSE costs[e]]

\* setCost(u, v, w): a new lifted edge gets w, an existing one accumulates it
SetCost(costs, a, b, w) ==
    [e \in DOMAIN costs \cup {{a, b}} |->
        IF e = {a, b}
        THEN (IF e \in DOMAIN costs THEN costs[e] + w ELSE w)
        ELSE costs[e]]

\* a bounds test of the lifted fill that also rejects neighbors in row 0
BuildInside2Strict(shape, q0, q1) ==
    q0 > 0 /\ q0 < shape[1] /\ q1 >= 0 /\ q1 < shape[2]

\* if(q0 >= 0 && q0 < shape[0] && q1 >= 0 && q1 < shape[1]) of the lifted fill
BuildInside2(shape, q0, q1) ==
    q0 >= 0 /\ q0 < shape[1] /\ q1 >= 0 /\ q1 < shape[2]

\* fill the lifted obj: the offset loop at position (p0, p1)
RECURSIVE FillOffsets2(_, _, _, _, _, _, _, _)
FillOffsets2(obj, u, td, costs, p0, p1, node_p, offset_index) ==
    IF offset_index >= obj.n_offsets THEN costs
    ELSE LET q0 == p0 + obj.offsets[offset_index + 1][1]
             q1 == p1 + obj.offsets[offset_index + 1][2]
             p_label == UfdFind(u, node_p)
             c1 == IF BuildInside2(obj.shape, q0, q1)
                   THEN LET node_q  == q0 * obj.shape[2] + q1
                            q_label == UfdFind(u, node_q)
                        IN  IF p_label # q_label
                            THEN SetCost(costs, DenseAt(td, p_label),
                                         DenseAt(td, q_label),
                                         obj.weights[<<p0, p1, offset_index>>])
                            ELSE costs
                   ELSE costs
         IN  FillOffsets2(obj, u, td, c1, p0, p1, node_p, offset_index + 1)

\* fill the lifted obj: the position loop, from the i-th position on
RECURSIVE FillLoop2(_, _, _, _, _)
FillLoop2(obj, u, td, costs, i) ==
    IF i > obj.shape[1] * obj.shape[2] THEN costs
    ELSE LET p == Loop2(obj.shape[1], obj.shape[2])[i]
         IN  FillLoop2(obj, u, td,
                       FillOffsets2(obj, u, td, costs, p[1], p[2], i - 1, 0),
                       i + 1)

\* cc_obj.evalNodeLabels: the cost of the lifted edges whose ends differ
EvalNodeLabels(costs, nl) ==
    LET cut == {e \in DOMAIN costs : \E a \in e, b \in e : nl[a] # nl[b]}
    IN  SumOver(cut, [e \in cut |-> costs[e]])

(***************************************************************************)
(* PixelWiseLmcConnetedComponentsFusion<2>: merge_ufd2 (K candidates)      *)
(***************************************************************************)

\* a candidate loop that merges as soon as one candidate agrees
DoMergeAny(lab, p, q, o) ==
    \E k \in (o + 1) .. Len(lab) : lab[k][p] = lab[k][q]

\* the candidate loop of merge_ufd2: do_merge stays true while the labels of
\* p and q agree in candidate o, o + 1, ...
RECURSIVE DoMerge(_, _, _, _)
DoMerge(lab, p, q, o) ==
    IF o >= Len(lab) THEN TRUE
    ELSE IF lab[o + 1][p] # lab[o + 1][q] THEN FALSE
    ELSE DoMerge(lab, p, q, o + 1)

RECURSIVE MergeUfd2Loop2(_, _, _, _)
MergeUfd2Loop2(shape, lab, u, i) ==
    IF i > shape[1] * shape[2] THEN u
    ELSE LET p      == Loop2(shape[1], shape[2])[i]
             p0     == p[1]
             p1     == p[2]
             node_p == i - 1
             u1 == IF p0 + 1 < shape[1] /\ DoMerge(lab, p, <<p0 + 1, p1>>, 0)
                   THEN UfdMerge(u, node_p, node_p + shape[2])
                   ELSE u
             u2 == IF p1 + 1 < shape[2] /\ DoMerge(lab, p, <<p0, p1 + 1>>, 0)
                   THEN UfdMerge(u1, node_p, node_p + 1)
                   ELSE u1
         IN  MergeUfd2Loop2(shape, lab, u2, i + 1)

merge_ufd2_2D(obj, lab, u) == MergeUfd2Loop2(obj.shape, lab, u, 1)

(***************************************************************************)
(* PixelWiseLmcConnetedComponentsFusion<3>: merge_ufd and _build_          *)
(***************************************************************************)
RECURSIVE MergeUfdLoop3(_, _, _, _, _)
MergeUfdLoop3(shape, la, lb, u, i) ==
    IF i > shape[1] * shape[2] * shape[3] THEN u
    ELSE LET p      == Loop3(shape[1], shape[2], shape[3])[i]
             p0     == p[1]
             p1     == p[2]
             p2     == p[3]
             node_p == i - 1
             u1 == IF p0 + 1 < shape[1] /\ AgreeAB(la, lb, p, <<p0 + 1, p1, p2>>)
                   THEN UfdMerge(u, node_p, node_p + shape[2] * shape[3])
                   ELSE u
             u2 == IF p1 + 1 < shape[2] /\ AgreeAB(la, lb, p, <<p0, p1 + 1, p2>>)
                   THEN UfdMerge(u1, node_p, node_p + shape[3])
                   ELSE u1
             u3 == IF p2 + 1 < shape[3] /\ AgreeAB(la, lb, p, <<p0, p1, p2 + 1>>)
                   THEN UfdMerge(u2, node_p, node_p + 1)
                   ELSE u2
         IN  MergeUfdLoop3(shape, la, lb, u3, i + 1)

merge_ufd3D(obj, la, lb, u) == MergeUfdLoop3(obj.shape, la, lb, u, 1)

\* make map dense (3-D): *res_iter = to_dense[ufd_.find(var)] for every var
DenseRes3(obj, u, td) ==
    [p \in Coords(obj.shape) |->
        DenseAt(td, UfdFind(u, p[1] * obj.shape[2] * obj.shape[3]
                               + p[2] * obj.shape[3] + p[3]))]

\* build the normal graph (3-D)
CcEdges3(obj, u, td) ==
    LET n1 == obj.shape[2]
        n2 == obj.shape[3]
        node(p) == p[1] * n1 * n2 + p[2] * n2 + p[3]
        dense(x) == DenseAt(td, UfdFind(u, x))
        ax0 == {p \in Coords(obj.shape) : p[1] + 1 < obj.shape[1]
                    /\ UfdFind(u, node(p)) # UfdFind(u, node(p) + n1 * n2)}
        ax1 == {p \in Coords(obj.shape) : p[2] + 1 < obj.shape[2]
                    /\ UfdFind(u, node(p)) # UfdFind(u, node(p) + n2)}
        ax2 == {p \in Coords(obj.shape) : p[3] + 1 < obj.shape[3]
                    /\ UfdFind(u, node(p)) # UfdFind(u, node(p) + 1)}
    IN  {{dense(node(p)), dense(node(p) + n1 * n2)} : p \in ax0}
        \cup {{dense(node(p)), dense(node(p) + n2)} : p \in ax1}
        \cup {{dense(node(p)), dense(node(p) + 1)} : p \in ax2}

\* fill the lifted obj (3-D): the offset loop at position (p0, p1, p2)
RECURSIVE FillOffsets3(_, _, _, _, _, _, _, _, _)
FillOffsets3(obj, u, td, costs, p0, p1, p2, node_p, offset_index) ==
    IF offset_index >= obj.n_offsets THEN costs
    ELSE LET q0 == p0 + obj.offsets[offset_index + 1][1]
             q1 == p1 + obj.offsets[offset_index + 1][2]
             q2 == p2 + obj.offsets[offset_index + 1][3]
             p_label == UfdFind(u, node_p)
             c1 == IF /\ q0 >= 0 /\ q0 < obj.shape[1]
                      /\ q1 >= 0 /\ q1 < obj.shape[2]
                      /\ q2 >= 0 /\ q2 < obj.shape[3]
                   THEN LET node_q  == q0 * obj.shape[2] * obj.shape[3]
                                       + q1 * obj.shape[3] + q2
                            q_label == UfdFind(u, node_q)
                        IN  IF p_label # q_label
                            THEN SetCost(costs, DenseAt(td, p_label),
                                         DenseAt(td, q_label),
                                         obj.weights[<<p0, p1, p2, offset_index>>])
                            ELSE costs
                   ELSE costs
         IN  FillOffsets3(obj, u, td, c1, p0, p1, p2, node_p, offset_index + 1)

\* a loop nest that visits every grid position once
FillNest3Grid(shape) == Loop3(shape[1], shape[2], shape[3])

\* the loop nest of the 3-D lifted fill:
\* for(p0 < shape[0]) for(p1 < shape[1]) for(p2 < shape[1]), ++node_p each time
FillNest3(shape) == Loop3(shape[1], shape[2], shape[2])

RECURSIVE FillLoop3(_, _, _, _, _)
FillLoop3(obj, u, td, costs, i) ==
    IF i > Len(FillNest3(obj.shape)) THEN costs
    ELSE LET p == FillNest3(obj.shape)[i]
         IN  FillLoop3(obj, u, td,
                       FillOffsets3(obj, u, td, costs, p[1], p[2], p[3], i - 1, 0),
                       i + 1)

(***************************************************************************)
(* PixelWiseLmcConnetedComponentsFusion<3>: merge_ufd2 (K candidates)      *)
(***************************************************************************)

\* the positions whose labels the axis-2 test of merge_ufd2 reads as those of
\* the neighbor: labels(p0, p1+1, p2, o) under the guard p2 + 1 < shape[2]
MergeUfd2Axis2Reads(shape) ==
    {<<p[1], p[2] + 1, p[3]>> : p \in {c \in Coords(shape) : c[3] + 1 < shape[3]}}

\* the reads of merge_ufd2 that leave the grid
MergeUfd2OutsideReads(shape) ==
    {q \in MergeUfd2Axis2Reads(shape) : ~InShape(shape, q)}

\* what the reads behind the grid may return: any label, one per read
MergeUfd2Garbage(shape, n) ==
    [MergeUfd2OutsideReads(shape) \X (0 .. (n - 1)) -> {Wide(0, l) : l \in LabelVals}]

\* labels(q0, q1, q2, o), an unchecked element access
LabelRead3(lab, shape, q, o, garbage) ==
    IF InShape(shape, q) THEN lab[o + 1][q] ELSE garbage[<<q, o>>]

\* the candidate loop of the 3-D merge_ufd2
RECURSIVE DoMerge3(_, _, _, _, _, _)
DoMerge3(lab, shape, p, q, o, garbage) ==
    IF o >= Len(lab) THEN TRUE
    ELSE IF lab[o + 1][p] # LabelRead3(lab, shape, q, o, garbage) THEN FALSE
    ELSE DoMerge3(lab, shape, p, q, o + 1, garbage)

\* a merge_ufd2 whose three tests read and merge the neighbor along their axis
RECURSIVE MergeUfd2Loop3PerAxis(_, _, _, _, _)
MergeUfd2Loop3PerAxis(shape, lab, u, i, garbage) ==
    IF i > shape[1] * shape[2] * shape[3] THEN u
    ELSE LET p      == Loop3(shape[1], shape[2], shape[3])[i]
             node_p == i - 1
             u1 == IF p[1] + 1 < shape[1]
                      /\ DoMerge3(lab, shape, p, <<p[1] + 1, p[2], p[3]>>, 0, garbage)
                   THEN UfdMerge(u, node_p, node_p + shape[2] * shape[3])
                   ELSE u
             u2 == IF p[2] + 1 < shape[2]
                      /\ DoMerge3(lab, shape, p, <<p[1], p[2] + 1, p[3]>>, 0, garbage)
                   THEN UfdMerge(u1, node_p, node_p + shape[3])
                   ELSE u1
             u3 == IF p[3] + 1 < shape[3]
                      /\ DoMerge3(lab, shape, p, <<p[1], p[2], p[3] + 1>>, 0, garbage)
                   THEN UfdMerge(u2, node_p, node_p + 1)
                   ELSE u2
         IN  MergeUfd2Loop3PerAxis(shape, lab, u3, i + 1, garbage)

\* the position loop of the 3-D merge_ufd2, from the i-th position on:
\* axis 0 merges node_p + shape[2], axis 1 merges node_p + 1, and the axis-2
\* test reads the labels of (p0, p1+1, p2) and merges node_p + 1
RECURSIVE MergeUfd2Loop3(_, _, _, _, _)
MergeUfd2Loop3(shape, lab, u, i, garbage) ==
    IF i > shape[1] * shape[2] * shape[3] THEN u
    ELSE LET p      == Loop3(shape[1], shape[2], shape[3])[i]
             p0     == p[1]
             p1     == p[2]
             p2     == p[3]
             node_p == i - 1
             u1 == IF p0 + 1 < shape[1]
                      /\ DoMerge3(lab, shape, p, <<p0 + 1, p1, p2>>, 0, garbage)
                   THEN UfdMerge(u, node_p, node_p + shape[3])
                   ELSE u
             u2 == IF p1 + 1 < shape[2]
                      /\ DoMerge3(lab, shape, p, <<p0, p1 + 1, p2>>, 0, garbage)
                   THEN UfdMerge(u1, node_p, node_p + 1)
                   ELSE u1
             u3 == IF p2 + 1 < shape[3]
                      /\ DoMerge3(lab, shape, p, <<p0, p1 + 1, p2>>, 0, garbage)
                   THEN UfdMerge(u2, node_p, node_p + 1)
                   ELSE u2
         IN  MergeUfd2Loop3(shape, lab, u3, i + 1, garbage)

merge_ufd2_3D(obj, lab, u, garbage) == MergeUfd2Loop3(obj.shape, lab, u, 1, garbage)

(***************************************************************************)
(* The K-candidate selection callback: best_e is a float                   *)
(***************************************************************************)
TwoTo24 == 16777216

Abs(x) == IF x < 0 THEN 0 - x ELSE x

\* the spacing of the floats around magnitude a (24-bit significand)
RECURSIVE FloatUlp(_, _)
FloatUlp(a, u) == IF a < TwoTo24 * u THEN u ELSE FloatUlp(a, 2 * u)

\* a double-to-float conversion that keeps the value
ToFloatExact(x) == x

\* best_e = e: the double e is narrowed to float, round to nearest, ties to even
ToFloat(x) ==
    LET a   == Abs(x)
        u   == FloatUlp(a, 1)
        lo  == (a \div u) * u
        r   == a - lo
        rnd == IF 2 * r < u THEN lo
               ELSE IF 2 * r > u THEN lo + u
               ELSE IF (lo \div u) % 2 = 0 THEN lo ELSE lo + u
    IN  IF x < 0 THEN 0 - rnd ELSE rnd

\* best_e = infinity, best_i = 0
BestInit == [e |-> 0, i |-> 0, inf |-> TRUE]

\* for(i < n_proposals): e = evaluate(view i); if(e < best_e){best_e = e; best_i = i;}
RECURSIVE BestLoop(_, _, _, _)
BestLoop(obj, lab, i, b) ==
    IF i >= Len(lab) THEN b
    ELSE LET e == evaluate(obj, lab[i + 1])
         IN  IF b.inf \/ e < b.e
             THEN BestLoop(obj, lab, i + 1, [e |-> ToFloat(e), i |-> i, inf |-> FALSE])
             ELSE BestLoop(obj, lab, i + 1, b)

\* if(cc_energy < best_e)
CcWinsK(cc_energy, b) == b.inf \/ cc_energy < b.e

(***************************************************************************)
(* PixelWiseLmcConnetedComponentsFusion: one fuse call, step by step       *)
(***************************************************************************)
MaxFuseCalls == 2

MaxSolverLabel == 1

SolverLabelVals == 0 .. MaxSolverLabel

\* the errors a solver factory or a solver may raise
SolverErrors == {"bad_alloc", "runtime_error"}

NoSolverCalls == [create |-> 0, optimize |-> 0, release |-> 0, thrown |-> "none"]

NoEdgeGt == [gt |-> <<>>, offsets |-> <<>>, shape |-> <<>>, result |-> <<>>]

NoEngines == [eng |-> <<>>, forest |-> <<>>, shared |-> <<>>]

\* no call has run yet
NoCallState ==
    /\ solver_calls = NoSolverCalls
    /\ error = "none"
    /\ edge_gt = NoEdgeGt
    /\ engines = NoEngines
    /\ merge_log = <<>>

NoEngine ==
    /\ form = "none"
    /\ ufd_ = UfdNew(0)
    /\ res = <<>>
    /\ to_dense = <<>>
    /\ cc_graph = [n |-> 0, edges |-> {}]
    /\ cc_obj = <<>>
    /\ cc_node_labels = <<>>
    /\ e_res = 0
    /\ best = BestInit
    /\ solver = "none"
    /\ calls = 0
    /\ dirty = FALSE
    /\ winner = "none"

\* PixelWiseLmcConnetedComponentsFusion(objective, solver_fatory):
\* ufd_(objective.n_variables())
NewEngine ==
    /\ form = "none"
    /\ ufd_ = UfdNew(objective_.n_variables)
    /\ res = <<>>
    /\ to_dense = <<>>
    /\ cc_graph = [n |-> 0, edges |-> {}]
    /\ cc_obj = <<>>
    /\ cc_node_labels = <<>>
    /\ e_res = 0
    /\ best = BestInit
    /\ solver = "none"
    /\ calls = 0
    /\ dirty = FALSE
    /\ winner = "none"

\* the locals of a fuse call as they are when the call begins
FreshLocals ==
    /\ res' = <<>>
    /\ to_dense' = <<>>
    /\ cc_graph' = [n |-> 0, edges |-> {}]
    /\ cc_obj' = <<>>
    /\ cc_node_labels' = <<>>
    /\ e_res' = 0
    /\ best' = BestInit
    /\ solver' = "none"
    /\ winner' = "none"
    /\ energy' = <<>>
    /\ solver_calls' = NoSolverCalls
    /\ error' = "none"

\* a fuse that keeps the forest of the previous call
FuseKeepForest(u) == u

\* fuse: ufd_.reset()
FuseReset(u) == UfdReset(u)

\* fuse(e_labels_a, e_labels_b) is entered: the forest is reset
EnterFuseAB ==
    /\ \E la \in CandidateLabelings(objective_), lb \in CandidateLabelings(objective_) :
          labels' = <<la, lb>>
    /\ form' = "ab"
    /\ dirty' = (ufd_.numberOfSets < objective_.n_variables)
    /\ ufd_' = FuseReset(ufd_)
    /\ calls' = calls + 1
    /\ FreshLocals
    /\ pc' = "reset"
    /\ UNCHANGED objective_
    /\ UNCHANGED ufdVars
    /\ UNCHANGED extVars

\* the first fuse(e_labels_a, e_labels_b) call on the engine
FuseAB == pc = "idle" /\ EnterFuseAB

\* a later fuse(e_labels_a, e_labels_b) call on the same engine
FuseABAgain == pc \in {"done", "raised"} /\ calls < MaxFuseCalls /\ EnterFuseAB

\* the forest merge_ufd leaves behind
MergedForest(obj, frm, lab, u) ==
    IF obj.dim = 2
    THEN IF frm = "ab" THEN merge_ufd2D(obj, lab[1], lab[2], u)
         ELSE merge_ufd2_2D(obj, lab, u)
    ELSE merge_ufd3D(obj, lab[1], lab[2], u)

\* the dense component id _build_ stores for every position
DenseRes(obj, u, td) ==
    IF obj.dim = 2 THEN DenseRes2(obj, u, td) ELSE DenseRes3(obj, u, td)

\* the plain edges _build_ inserts
CcEdges(obj, u, td) ==
    IF obj.dim = 2 THEN CcEdges2(obj, u, td) ELSE CcEdges3(obj, u, td)

\* the lifted costs _build_ sets
CcCosts(obj, u, td, edges) ==
    IF obj.dim = 2 THEN FillLoop2(obj, u, td, CcObjNew(edges), 1)
    ELSE FillLoop3(obj, u, td, CcObjNew(edges), 1)

\* this->merge_ufd(e_labels_a, e_labels_b), then e_a and e_b are evaluated
MergeStep ==
    /\ pc = "reset"
    /\ ufd_' = MergedForest(objective_, form, labels, ufd_)
    /\ energy' = IF form = "ab"
                 THEN <<evaluate(objective_, labels[1]), evaluate(objective_, labels[2])>>
                 ELSE energy
    /\ pc' = "merged"
    /\ UNCHANGED <<objective_, labels, form, res, to_dense, cc_graph, cc_obj,
                   cc_node_labels, e_res, best, solver, calls, dirty, winner>>
    /\ UNCHANGED ufdVars
    /\ UNCHANGED errVars
    /\ UNCHANGED extVars

\* _build_, make map dense
DenseRelabel ==
    /\ pc = "merged"
    /\ to_dense' = UfdRepresentativeLabeling(ufd_)
    /\ res' = DenseRes(objective_, ufd_, to_dense')
    /\ ufd_' = UfdCompressAll(ufd_)
    /\ pc' = "dense"
    /\ UNCHANGED <<objective_, labels, energy, form, cc_graph, cc_obj,
                   cc_node_labels, e_res, best, solver, calls, dirty, winner>>
    /\ UNCHANGED ufdVars
    /\ UNCHANGED errVars
    /\ UNCHANGED extVars

\* _build_, build the normal graph and fill the lifted obj
BuildGraph ==
    /\ pc = "dense"
    /\ cc_graph' = [n |-> ufd_.numberOfSets,
                    edges |-> CcEdges(objective_, ufd_, to_dense)]
    /\ cc_obj' = CcCosts(objective_, ufd_, to_dense, cc_graph'.edges)
    /\ pc' = "built"
    /\ UNCHANGED <<objective_, labels, energy, form, ufd_, res, to_dense,
                   cc_node_labels, e_res, best, solver, calls, dirty, winner>>
    /\ UNCHANGED ufdVars
    /\ UNCHANGED errVars
    /\ UNCHANGED extVars

\* auto solver = solver_fatory_->create(cc_obj); CCNodeLabels cc_node_labels(cc_graph)
CreateSolver ==
    /\ pc = "built"
    /\ solver' = "live"
    /\ cc_node_labels' = [c \in 0 .. (cc_graph.n - 1) |-> 0]
    /\ pc' = "created"
    /\ UNCHANGED <<objective_, labels, energy, form, ufd_, res, to_dense,
                   cc_graph, cc_obj, e_res, best, calls, dirty, winner>>
    /\ UNCHANGED ufdVars
    /\ solver_calls' = [solver_calls EXCEPT !.create = @ + 1]
    /\ UNCHANGED error
    /\ UNCHANGED extVars

\* solver->optimize(cc_node_labels, nullptr): any component labeling
SolverOptimize ==
    /\ pc = "created"
    /\ cc_node_labels' \in [0 .. (cc_graph.n - 1) -> SolverLabelVals]
    /\ pc' = "optimized"
    /\ UNCHANGED <<objective_, labels, energy, form, ufd_, res, to_dense,
                   cc_graph, cc_obj, e_res, best, solver, calls, dirty, winner>>
    /\ UNCHANGED ufdVars
    /\ solver_calls' = [solver_calls EXCEPT !.optimize = @ + 1]
    /\ UNCHANGED error
    /\ UNCHANGED extVars

\* auto e_res = cc_obj.evalNodeLabels(cc_node_labels); delete solver
EvalAndRelease ==
    /\ pc = "optimized"
    /\ e_res' = EvalNodeLabels(cc_obj, cc_node_labels)
    /\ solver' = "deleted"
    /\ pc' = "released"
    /\ UNCHANGED <<objective_, labels, energy, form, ufd_, res, to_dense,
                   cc_graph, cc_obj, cc_node_labels, best, calls, dirty, winner>>
    /\ UNCHANGED ufdVars
    /\ solver_calls' = [solver_calls EXCEPT !.release = @ + 1]
    /\ UNCHANGED error
    /\ UNCHANGED extVars

\* a handler that catches the exception and builds a solver again
UnwindRetry(at) == IF at \in {"built", "created"} THEN "built" ELSE "o_built"

\* create and optimize are called outside any try block: an exception thrown
\* there leaves _build_ and fuse at once and reaches the caller of fuse
Unwind(at) == "raised"

\* solver_fatory_->create(cc_obj) throws
CreateRaises ==
    /\ pc = "built"
    /\ \E e \in SolverErrors :
          /\ solver_calls' = [solver_calls EXCEPT !.create = @ + 1, !.thrown = e]
          /\ error' = e
    /\ pc' = Unwind(pc)
    /\ UNCHANGED <<objective_, labels, energy, form, ufd_, res, to_dense,
                   cc_graph, cc_obj, cc_node_labels, e_res, best, solver,
                   calls, dirty, winner>>
    /\ UNCHANGED ufdVars
    /\ UNCHANGED extVars

\* solver->optimize(cc_node_labels, nullptr) throws: delete solver is skipped
OptimizeRaises ==
    /\ pc = "created"
    /\ \E e \in SolverErrors :
          /\ solver_calls' = [solver_calls EXCEPT !.optimize = @ + 1, !.thrown = e]
          /\ error' = e
    /\ pc' = Unwind(pc)
    /\ UNCHANGED <<objective_, labels, energy, form, ufd_, res, to_dense,
                   cc_graph, cc_obj, cc_node_labels, e_res, best, solver,
                   calls, dirty, winner>>
    /\ UNCHANGED ufdVars
    /\ UNCHANGED extVars

Min2(a, b) == IF b < a THEN b ELSE a

\* a comparison that also takes the contracted solution on a tie
CcWinsOnTie(cc_energy, cand_energy) == cc_energy <= cand_energy

\* if(cc_energy < std::min(e_a, e_b))
CcWins(cc_energy, cand_energy) == cc_energy < cand_energy

\* *res_iter = cc_node_labels[dense_var] for every var
MapBack(dense, nl) == [p \in DOMAIN dense |-> nl[dense[p]]]

\* an element stored into xt::xtensor<int>: the low 32 bits of the value, read
\* as a two's complement number
StoreInt(v) == IF v.hi % 2 = 0 THEN v.lo ELSE v.lo - IntMax - 1

\* std::copy(labels.begin(), labels.end(), res.begin()): every element is
\* converted to the element type of res, uint64_t in the 2-D engine (the
\* candidates' own type) and int in the 3-D engine
CopyCandidate(obj, lab) ==
    IF obj.dim = 2 THEN lab ELSE [p \in DOMAIN lab |-> StoreInt(lab[p])]

\* the branch the two-candidate callback takes
BranchAB(cc_energy, e_a, e_b) ==
    IF CcWins(cc_energy, Min2(e_a, e_b)) THEN "cc"
    ELSE IF e_a < e_b THEN "a" ELSE "b"

\* f(cc_node_labels, e_res) of fuse(e_labels_a, e_labels_b); return res
SelectAB ==
    /\ pc = "released"
    /\ form = "ab"
    /\ winner' = BranchAB(e_res, energy[1], energy[2])
    /\ res' = IF winner' = "cc" THEN MapBack(res, cc_node_labels)
              ELSE IF winner' = "a" THEN CopyCandidate(objective_, labels[1])
              ELSE CopyCandidate(objective_, labels[2])
    /\ pc' = "done"
    /\ UNCHANGED <<objective_, labels, energy, form, ufd_, to_dense, cc_graph,
                   cc_obj, cc_node_labels, e_res, best, solver, calls, dirty>>
    /\ UNCHANGED ufdVars
    /\ UNCHANGED errVars
    /\ UNCHANGED extVars

FuseInit ==
    /\ bufd = BoostUfdInit(UfdSize)
    /\ related = EquivClosure({})
    /\ lastOp = NoOp
    /\ objective_ \in Objectives2
    /\ labels = <<>>
    /\ energy = <<>>
    /\ pc = "idle"
    /\ NewEngine
    /\ NoCallState

FuseNext ==
    \/ FuseAB
    \/ MergeStep
    \/ DenseRelabel
    \/ BuildGraph
    \/ CreateSolver
    \/ CreateRaises
    \/ SolverOptimize
    \/ OptimizeRaises
    \/ EvalAndRelease
    \/ SelectAB

SpecFuse == FuseInit /\ [][FuseNext]_vars

MaxProposals == 3

\* the objectives of the K-candidate specification
ObjectivesK ==
    Family(<<1, 3>>, {<< <<0, 1>> >>}, {1, 3, 16777216})
    \cup Family(<<2, 1>>, {<< <<1, 0>> >>}, {-1, 3, 16777216})

\* the stacks of n candidate labelings
Stacks(shape, n) == [1 .. n -> Labelings(shape)]

\* fuse(e_labels), K candidates stacked along the trailing axis, is entered
FuseK ==
    /\ pc = "idle"
    /\ \E n \in 1 .. MaxProposals : labels' \in Stacks(objective_.shape, n)
    /\ form' = "k"
    /\ dirty' = (ufd_.numberOfSets < objective_.n_variables)
    /\ ufd_' = FuseReset(ufd_)
    /\ calls' = calls + 1
    /\ FreshLocals
    /\ pc' = "reset"
    /\ UNCHANGED objective_
    /\ UNCHANGED ufdVars
    /\ UNCHANGED extVars

\* f(cc_node_labels, e_res) of fuse(e_labels); return res
SelectK ==
    /\ pc = "released"
    /\ form = "k"
    /\ best' = BestLoop(objective_, labels, 0, BestInit)
    /\ energy' = [i \in 1 .. Len(labels) |-> evaluate(objective_, labels[i])]
    /\ winner' = IF CcWinsK(e_res, best') THEN "cc" ELSE "cand"
    /\ res' = IF winner' = "cc" THEN MapBack(res, cc_node_labels)
              ELSE CopyCandidate(objective_, labels[best'.i + 1])
    /\ pc' = "done"
    /\ UNCHANGED <<objective_, labels, form, ufd_, to_dense, cc_graph,
                   cc_obj, cc_node_labels, e_res, solver, calls, dirty>>
    /\ UNCHANGED ufdVars
    /\ UNCHANGED errVars
    /\ UNCHANGED extVars

\* what fuse(e_labels) of the 2-D engine returns for the stack lab when the
\* solver answers nl: merge_ufd2, _build_ and the K-candidate callback
FuseKResult(obj, lab, nl) ==
    LET u     == merge_ufd2_2D(obj, lab, FuseReset(UfdNew(obj.n_variables)))
        td    == UfdRepresentativeLabeling(u)
        dense == DenseRes(obj, u, td)
        costs == CcCosts(obj, u, td, CcEdges(obj, u, td))
        b     == BestLoop(obj, lab, 0, BestInit)
    IN  IF CcWinsK(EvalNodeLabels(costs, nl), b) THEN MapBack(dense, nl)
        ELSE CopyCandidate(obj, lab[b.i + 1])

FuseKInit ==
    /\ bufd = BoostUfdInit(UfdSize)
    /\ related = EquivClosure({})
    /\ lastOp = NoOp
    /\ objective_ \in ObjectivesK
    /\ labels = <<>>
    /\ energy = <<>>
    /\ pc = "idle"
    /\ NewEngine
    /\ NoCallState

FuseKNext ==
    \/ FuseK
    \/ MergeStep
    \/ DenseRelabel
    \/ BuildGraph
    \/ CreateSolver
    \/ CreateRaises
    \/ SolverOptimize
    \/ OptimizeRaises
    \/ EvalAndRelease
    \/ SelectK

SpecFuseK == FuseKInit /\ [][FuseKNext]_vars

Fuse3Init ==
    /\ bufd = BoostUfdInit(UfdSize)
    /\ related = EquivClosure({})
    /\ lastOp = NoOp
    /\ objective_ \in Objectives3
    /\ labels = <<>>
    /\ energy = <<>>
    /\ pc = "idle"
    /\ NewEngine
    /\ NoCallState

SpecFuse3 == Fuse3Init /\ [][FuseNext]_vars

\* the objectives of the 3-D K-candidate specification
ObjectivesK3 ==
    Family(<<1, 2, 2>>, {<< <<0, 1, 0>> >>}, WeightVals)
    \cup Family(<<2, 1, 2>>, {<< <<1, 0, 0>> >>}, WeightVals)
    \cup Family(<<2, 2, 2>>, {<< <<1, 0, 0>> >>}, {2})

MaxProposals3 == 2

MaxStackNodes == 4

\* the numbers of candidates tried on obj: the largest grid gets one candidate
ProposalsFor(obj) ==
    IF obj.n_variables > MaxStackNodes THEN 1 .. 1 ELSE 1 .. MaxProposals3

Stacks3(shape, n) == [1 .. n -> Labelings3(shape)]

\* fuse(e_labels) of the 3-D engine is entered
FuseK3 ==
    /\ pc = "idle"
    /\ \E n \in ProposalsFor(objective_) : labels' \in Stacks3(objective_.shape, n)
    /\ form' = "k"
    /\ dirty' = (ufd_.numberOfSets < objective_.n_variables)
    /\ ufd_' = FuseReset(ufd_)
    /\ calls' = calls + 1
    /\ FreshLocals
    /\ pc' = "reset"
    /\ UNCHANGED objective_
    /\ UNCHANGED ufdVars
    /\ UNCHANGED extVars

\* this->merge_ufd2(e_labels) of the 3-D engine
MergeStepK3 ==
    /\ pc = "reset"
    /\ form = "k"
    /\ objective_.dim = 3
    /\ \E garbage \in MergeUfd2Garbage(objective_.shape, Len(labels)) :
          ufd_' = merge_ufd2_3D(objective_, labels, ufd_, garbage)
    /\ pc' = "merged"
    /\ UNCHANGED <<objective_, labels, energy, form, res, to_dense, cc_graph,
                   cc_obj, cc_node_labels, e_res, best, solver, calls, dirty,
                   winner>>
    /\ UNCHANGED ufdVars
    /\ UNCHANGED errVars
    /\ UNCHANGED extVars

FuseK3Init ==
    /\ bufd = BoostUfdInit(UfdSize)
    /\ related = EquivClosure({})
    /\ lastOp = NoOp
    /\ objective_ \in ObjectivesK3
    /\ labels = <<>>
    /\ energy = <<>>
    /\ pc = "idle"
    /\ NewEngine
    /\ NoCallState

FuseK3Next ==
    \/ FuseK3
    \/ MergeStepK3
    \/ DenseRelabel
    \/ BuildGraph
    \/ CreateSolver
    \/ CreateRaises
    \/ SolverOptimize
    \/ OptimizeRaises
    \/ EvalAndRelease
    \/ SelectK

SpecFuseK3 == FuseK3Init /\ [][FuseK3Next]_vars

\* the two-candidate fuse of the 2-D and of the 3-D engine
FuseAllInit == FuseInit \/ Fuse3Init

SpecFuseAll == FuseAllInit /\ [][FuseNext]_vars

\* the objectives of the wide-label specification: shape[1] = shape[2]
ObjectivesWide3 ==
    Family(<<2, 1, 1>>, {<< <<1, 0, 0>> >>, << <<1, 0, 0>>, <<-1, 0, 0>> >>},
           WeightVals)

FuseWide3Init ==
    /\ bufd = BoostUfdInit(UfdSize)
    /\ related = EquivClosure({})
    /\ lastOp = NoOp
    /\ objective_ \in ObjectivesWide3
    /\ labels = <<>>
    /\ energy = <<>>
    /\ pc = "idle"
    /\ NewEngine
    /\ NoCallState

\* fuse(e_labels_a, e_labels_b) of the 3-D engine on unsigned 64-bit labels
FuseABWide ==
    /\ pc = "idle"
    /\ \E la \in WideLabelings3(objective_.shape),
          lb \in WideLabelings3(objective_.shape) : labels' = <<la, lb>>
    /\ form' = "ab"
    /\ dirty' = (ufd_.numberOfSets < objective_.n_variables)
    /\ ufd_' = FuseReset(ufd_)
    /\ calls' = calls + 1
    /\ FreshLocals
    /\ pc' = "reset"
    /\ UNCHANGED objective_
    /\ UNCHANGED ufdVars
    /\ UNCHANGED extVars

FuseWide3Next ==
    \/ FuseABWide
    \/ MergeStep
    \/ DenseRelabel
    \/ BuildGraph
    \/ CreateSolver
    \/ CreateRaises
    \/ SolverOptimize
    \/ OptimizeRaises
    \/ EvalAndRelease
    \/ SelectAB

SpecFuseWide3 == FuseWide3Init /\ [][FuseWide3Next]_vars

\* the objectives of the repeated-call specification
ObjectivesRefuse ==
    Family(<<2, 2>>, {<< <<1, -1>> >>}, WeightVals)
    \cup Family(<<1, 3>>, {<< <<0, 1>>, <<0, -1>> >>}, WeightVals)

RefuseInit ==
    /\ bufd = BoostUfdInit(UfdSize)
    /\ related = EquivClosure({})
    /\ lastOp = NoOp
    /\ objective_ \in ObjectivesRefuse
    /\ labels = <<>>
    /\ energy = <<>>
    /\ pc = "idle"
    /\ NewEngine
    /\ NoCallState

RefuseNext ==
    \/ FuseAB
    \/ FuseABAgain
    \/ MergeStep
    \/ DenseRelabel
    \/ BuildGraph
    \/ CreateSolver
    \/ CreateRaises
    \/ SolverOptimize
    \/ OptimizeRaises
    \/ EvalAndRelease
    \/ SelectAB

SpecRefuse == RefuseInit /\ [][RefuseNext]_vars

(***************************************************************************)
(* PixelWiseLmcObjective::optimize, step by step. The grid graph, its      *)
(* objective and its node labels are held in cc_graph, cc_obj and          *)
(* cc_node_labels, the result array in res.                                *)
(***************************************************************************)

\* UndirectedGridGraph<DIM, true>(shape): an edge for every pair of
\* axis-neighbor positions
GridEdges(shape) ==
    {{NodeAt(shape, p), NodeAt(shape, q)} :
        <<p, q>> \in {pq \in Coords(shape) \X Coords(shape) :
                        \E d \in 1 .. Len(shape) :
                            pq[2] = [pq[1] EXCEPT ![d] = @ + 1]}}

\* FillObjHelper<2>::fill, the offset loop at position (p0, p1)
RECURSIVE FillObjOffsets2(_, _, _, _, _, _)
FillObjOffsets2(obj, costs, p0, p1, node_p, offset_index) ==
    IF offset_index >= obj.n_offsets THEN costs
    ELSE LET q0 == p0 + obj.offsets[offset_index + 1][1]
             q1 == p1 + obj.offsets[offset_index + 1][2]
             c1 == IF q0 >= 0 /\ q0 < obj.shape[1] /\ q1 >= 0 /\ q1 < obj.shape[2]
                   THEN LET node_q == q0 * obj.shape[2] + q1
                        IN  SetCost(costs, node_p, node_q,
                                    obj.weights[<<p0, p1, offset_index>>])
                   ELSE costs
         IN  FillObjOffsets2(obj, c1, p0, p1, node_p, offset_index + 1)

\* FillObjHelper<2>::fill, the position loop from the i-th position on
RECURSIVE FillObjLoop2(_, _, _)
FillObjLoop2(obj, costs, i) ==
    IF i > obj.shape[1] * obj.shape[2] THEN costs
    ELSE LET p == Loop2(obj.shape[1], obj.shape[2])[i]
         IN  FillObjLoop2(obj, FillObjOffsets2(obj, costs, p[1], p[2], i - 1, 0),
                          i + 1)

\* FillObjHelper<3>::fill, the offset loop at position (p0, p1, p2)
RECURSIVE FillObjOffsets3(_, _, _, _, _, _, _)
FillObjOffsets3(obj, costs, p0, p1, p2, node_p, offset_index) ==
    IF offset_index >= obj.n_offsets THEN costs
    ELSE LET q0 == p0 + obj.offsets[offset_index + 1][1]
             q1 == p1 + obj.offsets[offset_index + 1][2]
             q2 == p2 + obj.offsets[offset_index + 1][3]
             c1 == IF /\ q0 >= 0 /\ q0 < obj.shape[1]
                      /\ q1 >= 0 /\ q1 < obj.shape[2]
                      /\ q2 >= 0 /\ q2 < obj.shape[3]
                   THEN LET node_q == q0 * obj.shape[2] * obj.shape[3]
                                      + q1 * obj.shape[3] + q2
                        IN  SetCost(costs, node_p, node_q,
                                    obj.weights[<<p0, p1, p2, offset_index>>])
                   ELSE costs
         IN  FillObjOffsets3(obj, c1, p0, p1, p2, node_p, offset_index + 1)

\* a position loop whose innermost bound is shape[1] instead of shape[2]
RECURSIVE FillObjLoop3Square(_, _, _)
FillObjLoop3Square(obj, costs, i) ==
    IF i > obj.shape[1] * obj.shape[2] * obj.shape[2] THEN costs
    ELSE LET p == Loop3(obj.shape[1], obj.shape[2], obj.shape[2])[i]
         IN  FillObjLoop3Square(obj,
                          FillObjOffsets3(obj, costs, p[1], p[2], p[3], i - 1, 0),
                          i + 1)

\* FillObjHelper<3>::fill, the position loop from the i-th position on
RECURSIVE FillObjLoop3(_, _, _)
FillObjLoop3(obj, costs, i) ==
    IF i > obj.shape[1] * obj.shape[2] * obj.shape[3] THEN costs
    ELSE LET p == Loop3(obj.shape[1], obj.shape[2], obj.shape[3])[i]
         IN  FillObjLoop3(obj,
                          FillObjOffsets3(obj, costs, p[1], p[2], p[3], i - 1, 0),
                          i + 1)

\* detail_plmc::FillObjHelper<DIM>::fill(*this, gridGraphObj)
FillObjHelper(obj, costs) ==
    IF obj.dim = 2 THEN FillObjLoop2(obj, costs, 1) ELSE FillObjLoop3(obj, costs, 1)

\* for(auto l : labels){ gridGraphNodeLabels[node] = l; ++node; }
NodeLabelsOf(obj, lab) ==
    [n \in 0 .. (obj.n_variables - 1) |->
        lab[IF obj.dim = 2 THEN Loop2(obj.shape[1], obj.shape[2])[n + 1]
            ELSE Loop3(obj.shape[1], obj.shape[2], obj.shape[3])[n + 1]]]

\* for(auto & resLabel : resultArray){ resLabel = gridGraphNodeLabels[node]; ++node; }
ResultArrayOf(obj, nl) == [p \in Coords(obj.shape) |-> nl[NodeAt(obj.shape, p)]]

\* optimize(factory, e_labels, verbose) is entered: the grid graph, its
\* objective and the node labels are built
OptimizeEnter ==
    /\ pc = "idle"
    /\ \E lab \in Labelings(objective_.shape) :
          /\ labels' = <<lab>>
          /\ cc_node_labels' = NodeLabelsOf(objective_, lab)
    /\ \E verbose \in BOOLEAN :
          form' = IF verbose THEN "optimize_verbose" ELSE "optimize"
    /\ cc_graph' = [n |-> objective_.n_variables,
                    edges |-> GridEdges(objective_.shape)]
    /\ cc_obj' = FillObjHelper(objective_, CcObjNew(cc_graph'.edges))
    /\ solver' = "none"
    /\ solver_calls' = NoSolverCalls
    /\ error' = "none"
    /\ pc' = "o_built"
    /\ UNCHANGED <<objective_, energy, ufd_, res, to_dense, e_res, best,
                   calls, dirty, winner>>
    /\ UNCHANGED ufdVars
    /\ UNCHANGED extVars

\* auto solver = factory->create(gridGraphObj)
OptimizeCreate ==
    /\ pc = "o_built"
    /\ solver' = "live"
    /\ solver_calls' = [solver_calls EXCEPT !.create = @ + 1]
    /\ pc' = "o_created"
    /\ UNCHANGED <<objective_, labels, energy, form, ufd_, res, to_dense,
                   cc_graph, cc_obj, cc_node_labels, e_res, best, calls,
                   dirty, winner, error>>
    /\ UNCHANGED ufdVars
    /\ UNCHANGED extVars

\* factory->create(gridGraphObj) throws
OptimizeCreateRaises ==
    /\ pc = "o_built"
    /\ \E e \in SolverErrors :
          /\ solver_calls' = [solver_calls EXCEPT !.create = @ + 1, !.thrown = e]
          /\ error' = e
    /\ pc' = Unwind(pc)
    /\ UNCHANGED <<objective_, labels, energy, form, ufd_, res, to_dense,
                   cc_graph, cc_obj, cc_node_labels, e_res, best, solver,
                   calls, dirty, winner>>
    /\ UNCHANGED ufdVars
    /\ UNCHANGED extVars

\* solver->optimize(gridGraphNodeLabels, &visitor or nullptr): any labeling
OptimizeSolve ==
    /\ pc = "o_created"
    /\ cc_node_labels' \in [0 .. (cc_graph.n - 1) -> SolverLabelVals]
    /\ solver_calls' = [solver_calls EXCEPT !.optimize = @ + 1]
    /\ pc' = "o_optimized"
    /\ UNCHANGED <<objective_, labels, energy, form, ufd_, res, to_dense,
                   cc_graph, cc_obj, e_res, best, solver, calls, dirty,
                   winner, error>>
    /\ UNCHANGED ufdVars
    /\ UNCHANGED extVars

\* solver->optimize(...) throws: delete solver is skipped
OptimizeSolveRaises ==
    /\ pc = "o_created"
    /\ \E e \in SolverErrors :
          /\ solver_calls' = [solver_calls EXCEPT !.optimize = @ + 1, !.thrown = e]
          /\ error' = e
    /\ pc' = Unwind(pc)
    /\ UNCHANGED <<objective_, labels, energy, form, ufd_, res, to_dense,
                   cc_graph, cc_obj, cc_node_labels, e_res, best, solver,
                   calls, dirty, winner>>
    /\ UNCHANGED ufdVars
    /\ UNCHANGED extVars

\* delete solver; the node labels are copied into resultArray; return
OptimizeReturn ==
    /\ pc = "o_optimized"
    /\ solver' = "deleted"
    /\ solver_calls' = [solver_calls EXCEPT !.release = @ + 1]
    /\ res' = ResultArrayOf(objective_, cc_node_labels)
    /\ pc' = "o_done"
    /\ UNCHANGED <<objective_, labels, energy, form, ufd_, to_dense,
                   cc_graph, cc_obj, cc_node_labels, e_res, best, calls,
                   dirty, winner, error>>
    /\ UNCHANGED ufdVars
    /\ UNCHANGED extVars

OptimizeNext ==
    \/ OptimizeEnter
    \/ OptimizeCreate
    \/ OptimizeCreateRaises
    \/ OptimizeSolve
    \/ OptimizeSolveRaises
    \/ OptimizeReturn

\* the objectives of the solver-call specification
ObjectivesSolve ==
    Family(<<2, 2>>, {<< <<0, 1>>, <<1, 0>> >>}, {2})
    \cup Family(<<1, 3>>, {<< <<0, 1>>, <<0, -1>> >>}, WeightVals)
    \cup Family(<<1, 2, 2>>, {<< <<0, 1, 0>>, <<0, 0, 1>> >>}, {2})
    \cup Family(<<2, 1, 2>>, {<< <<0, 0, 1>>, <<0, 0, -1>> >>}, WeightVals)

SolveInit ==
    /\ bufd = BoostUfdInit(UfdSize)
    /\ related = EquivClosure({})
    /\ lastOp = NoOp
    /\ objective_ \in ObjectivesSolve
    /\ labels = <<>>
    /\ energy = <<>>
    /\ pc = "idle"
    /\ NewEngine
    /\ NoCallState

\* one optimize call or one fuse call on the objective
SolveNext == OptimizeNext \/ FuseNext

SpecSolve == SolveInit /\ [][SolveNext]_vars

(***************************************************************************)
(* Construction specification: PixelWiseLmcObjective<2> is constructed     *)
(* from any weight tensor and any offset matrix, then evaluated            *)
(***************************************************************************)
MaxOffsetRows == 2

MaxOffsetCols == 3

\* the offset matrices handed to the constructor: rows x cols, any extents
OffsetMatrices ==
    UNION {[1 .. rows -> [1 .. cols -> {0, 1}]] :
              <<rows, cols>> \in (1 .. MaxOffsetRows) \X (1 .. MaxOffsetCols)}

\* the shapes of the 3-D weight tensors handed to the constructor
WeightShapes == {<<1, 2, 1>>, <<1, 2, 2>>}

\* every weight tensor of shape wshape
WeightsOfShape(wshape) ==
    [{WKey(p, k) : p \in Coords(SubSeq(wshape, 1, Len(wshape) - 1)),
                   k \in 0 .. (wshape[Len(wshape)] - 1)} -> WeightVals]

\* what an out-of-range read of the offset buffer may return
GarbageVals == {-1, 0, 1, 5}

\* the row-major buffer of an offset matrix, followed by the memory behind it
OffsetBuffer(e_offsets, garbage, n) ==
    LET rows == Len(e_offsets)
        cols == Len(e_offsets[1])
    IN  [i \in 0 .. (n - 1) |->
            IF i < rows * cols
            THEN e_offsets[(i \div cols) + 1][(i % cols) + 1]
            ELSE garbage]

\* offsets(offset_index, d) as evaluate reads it: element
\* offset_index * cols + d of the buffer, without a range check
OffsetsAsRead(obj, garbage) ==
    LET cols == Len(obj.offsets[1])
        buf  == OffsetBuffer(obj.offsets, garbage, obj.n_offsets * cols + obj.dim)
    IN  [k \in 1 .. obj.n_offsets |->
            [d \in 1 .. obj.dim |-> buf[(k - 1) * cols + (d - 1)]]]

\* every read of evaluate stays inside the offset buffer
OffsetReadsInRange(obj) ==
    LET rows == Len(obj.offsets)
        cols == Len(obj.offsets[1])
    IN  \A k \in 0 .. (obj.n_offsets - 1), d \in 0 .. (obj.dim - 1) :
            k * cols + d < rows * cols

\* a constructor that compares the offset matrix with the weight tensor
ConstructChecked(wshape, e_offsets, e_weights) ==
    IF Len(e_offsets) = wshape[Len(wshape)]
       /\ \A k \in 1 .. Len(e_offsets) : Len(e_offsets[k]) = Len(wshape) - 1
    THEN [obj |-> MkObjective(wshape, e_offsets, e_weights), err |-> "none"]
    ELSE [obj |-> NoObjective, err |-> "configuration_error"]

\* PixelWiseLmcObjective(e_weights, e_offsets): the members are set from the
\* arguments, no extent is compared with another
Construct(wshape, e_offsets, e_weights) ==
    [obj |-> MkObjective(wshape, e_offsets, e_weights), err |-> "none"]

DoConstruct ==
    /\ pc = "idle"
    /\ \E wshape \in WeightShapes, e_offsets \in OffsetMatrices :
          \E e_weights \in WeightsOfShape(wshape) :
              LET c == Construct(wshape, e_offsets, e_weights)
              IN  /\ objective_' = c.obj
                  /\ error' = c.err
                  /\ pc' = IF c.err = "none" THEN "constructed" ELSE "raised"
    /\ UNCHANGED <<labels, energy, solver_calls>>
    /\ UNCHANGED ufdVars
    /\ UNCHANGED fuseVars
    /\ UNCHANGED extVars

\* evaluate on the constructed objective; a read behind the offset buffer
\* returns whatever the memory holds, or the process is stopped
EvaluateConstructed ==
    /\ pc = "constructed"
    /\ \E lab \in Labelings(objective_.shape) :
          /\ labels' = <<lab>>
          /\ \/ /\ OffsetReadsInRange(objective_)
                /\ energy' = <<evaluate([objective_ EXCEPT
                                  !.offsets = OffsetsAsRead(objective_, 0)], lab)>>
                /\ error' = "none"
                /\ pc' = "evaluated"
             \/ /\ ~OffsetReadsInRange(objective_)
                /\ \E g \in GarbageVals :
                      energy' = <<evaluate([objective_ EXCEPT
                                     !.offsets = OffsetsAsRead(objective_, g)], lab)>>
                /\ error' = "none"
                /\ pc' = "evaluated"
             \/ /\ ~OffsetReadsInRange(objective_)
                /\ energy' = <<>>
                /\ error' = "segmentation_fault"
                /\ pc' = "crashed"
    /\ UNCHANGED <<objective_, solver_calls>>
    /\ UNCHANGED ufdVars
    /\ UNCHANGED fuseVars
    /\ UNCHANGED extVars

CtorInit ==
    /\ bufd = BoostUfdInit(UfdSize)
    /\ related = EquivClosure({})
    /\ lastOp = NoOp
    /\ objective_ = NoObjective
    /\ labels = <<>>
    /\ energy = <<>>
    /\ pc = "idle"
    /\ NoEngine
    /\ NoCallState

CtorNext == DoConstruct \/ EvaluateConstructed

SpecCtor == CtorInit /\ [][CtorNext]_vars

(***************************************************************************)
(* pixel_wise_lmc_edge_gt_2d                                               *)
(***************************************************************************)

\* the offset lists handed to pixel_wise_lmc_edge_gt_2d
GtOffsetLists ==
    {<< <<0, 1>> >>, << <<1, 0>> >>, << <<0, 1>>, <<1, 0>> >>,
     << <<-1, 1>>, <<0, 2>> >>, << <<0, 0>> >>}

GtShapes == {<<2, 2>>, <<1, 3>>}

\* a result tensor whose storage starts zeroed
EdgeGtAllocZeroed(shape, n_offsets) ==
    {[key \in {WKey(p, k) : p \in Coords(shape), k \in 0 .. (n_offsets - 1)}
        |-> FALSE]}

\* auto result = ReturnType(result_shape): the storage of the new tensor is
\* not initialised, every entry holds whatever the memory held
EdgeGtAlloc(shape, n_offsets) ==
    [{WKey(p, k) : p \in Coords(shape), k \in 0 .. (n_offsets - 1)} -> BOOLEAN]

\* the loop of pixel_wise_lmc_edge_gt_2d: an entry is assigned
\* p_label != q_label when q is inside the grid and is left alone otherwise
EdgeGtFill(gt, shape, offsets, result) ==
    [key \in DOMAIN result |->
        LET p0 == key[1]
            p1 == key[2]
            offset_index == key[3]
            q0 == p0 + offsets[offset_index + 1][1]
            q1 == p1 + offsets[offset_index + 1][2]
        IN  IF q0 >= 0 /\ q0 < shape[1] /\ q1 >= 0 /\ q1 < shape[2]
            THEN gt[<<p0, p1>>] # gt[<<q0, q1>>]
            ELSE result[key]]

\* pixel_wise_lmc_edge_gt_2d(e_gt, e_offsets)
DoEdgeGt ==
    /\ pc = "idle"
    /\ \E shape \in GtShapes, offsets \in GtOffsetLists :
          \E gt \in Labelings(shape), fresh \in EdgeGtAlloc(shape, Len(offsets)) :
              edge_gt' = [gt |-> gt, offsets |-> offsets, shape |-> shape,
                          result |-> EdgeGtFill(gt, shape, offsets, fresh)]
    /\ pc' = "gt_done"
    /\ UNCHANGED <<objective_, labels, energy, engines, merge_log>>
    /\ UNCHANGED ufdVars
    /\ UNCHANGED fuseVars
    /\ UNCHANGED errVars

EdgeGtInit ==
    /\ bufd = BoostUfdInit(UfdSize)
    /\ related = EquivClosure({})
    /\ lastOp = NoOp
    /\ objective_ = NoObjective
    /\ labels = <<>>
    /\ energy = <<>>
    /\ pc = "idle"
    /\ NoEngine
    /\ NoCallState

EdgeGtNext == DoEdgeGt

SpecEdgeGt == EdgeGtInit /\ [][EdgeGtNext]_vars

(***************************************************************************)
(* Two fusion engines constructed on one objective, each running one       *)
(* fuse(e_labels_a, e_labels_b) call; their steps interleave               *)
(***************************************************************************)

\* both engines use one forest
ForestOfShared(i) == 1

\* nifty::ufd::Ufd<uint64_t> ufd_ is a member held by value: engine i has the
\* forest i of its own
ForestOf(i) == i

\* the locals of a fuse call that has not begun
IdleEngine ==
    [pc |-> "idle", labels |-> <<>>, energy |-> <<>>, res |-> <<>>,
     to_dense |-> <<>>, cc_graph |-> [n |-> 0, edges |-> {}], cc_obj |-> <<>>,
     cc_node_labels |-> <<>>, e_res |-> 0, solver |-> "none", winner |-> "none"]

\* the steps of fuse(e_labels_a, e_labels_b) and _build_ on the engine locals
\* e and the forest u: the set of <<locals, forest>> pairs one step leads to
EngineSteps(obj, e, u) ==
    CASE e.pc = "idle" ->
           {<<[e EXCEPT !.pc = "reset", !.labels = <<la, lb>>], FuseReset(u)>> :
               la \in CandidateLabelings(obj), lb \in CandidateLabelings(obj)}
      [] e.pc = "reset" ->
           {<<[e EXCEPT !.pc = "merged",
                        !.energy = <<evaluate(obj, e.labels[1]),
                                     evaluate(obj, e.labels[2])>>],
              MergedForest(obj, "ab", e.labels, u)>>}
      [] e.pc = "merged" ->
           {<<[e EXCEPT !.pc = "dense",
                        !.to_dense = UfdRepresentativeLabeling(u),
                        !.res = DenseRes(obj, u, UfdRepresentativeLabeling(u))],
              UfdCompressAll(u)>>}
      [] e.pc = "dense" ->
           {<<[e EXCEPT !.pc = "built",
                        !.cc_graph = [n |-> u.numberOfSets,
                                      edges |-> CcEdges(obj, u, e.to_dense)],
                        !.cc_obj = CcCosts(obj, u, e.to_dense,
                                           CcEdges(obj, u, e.to_dense))],
              u>>}
      [] e.pc = "built" ->
           {<<[e EXCEPT !.pc = "created", !.solver = "live",
                        !.cc_node_labels = [c \in 0 .. (e.cc_graph.n - 1) |-> 0]],
              u>>}
      [] e.pc = "created" ->
           {<<[e EXCEPT !.pc = "optimized", !.cc_node_labels = nl], u>> :
               nl \in [0 .. (e.cc_graph.n - 1) -> SolverLabelVals]}
      [] e.pc = "optimized" ->
           {<<[e EXCEPT !.pc = "released", !.solver = "deleted",
                        !.e_res = EvalNodeLabels(e.cc_obj, e.cc_node_labels)],
              u>>}
      [] e.pc = "released" ->
           LET br == BranchAB(e.e_res, e.energy[1], e.energy[2])
           IN  {<<[e EXCEPT !.pc = "done", !.winner = br,
                            !.res = IF br = "cc" THEN MapBack(e.res, e.cc_node_labels)
                                    ELSE IF br = "a"
                                         THEN CopyCandidate(obj, e.labels[1])
                                         ELSE CopyCandidate(obj, e.labels[2])],
                  u>>}
      [] OTHER -> {}

\* engine i takes its next step
EngineStep(i) ==
    /\ \E s \in EngineSteps(objective_, engines.eng[i], engines.forest[ForestOf(i)]) :
          engines' = [engines EXCEPT !.eng[i] = s[1],
                                     !.forest[ForestOf(i)] = s[2]]
    /\ UNCHANGED <<objective_, labels, energy, pc, edge_gt, merge_log>>
    /\ UNCHANGED ufdVars
    /\ UNCHANGED fuseVars
    /\ UNCHANGED errVars

\* the objectives shared by the two engines
ObjectivesShare == Family(<<1, 2>>, {<< <<0, 1>> >>, << <<0, -1>> >>}, WeightVals)

ShareInit ==
    /\ bufd = BoostUfdInit(UfdSize)
    /\ related = EquivClosure({})
    /\ lastOp = NoOp
    /\ objective_ \in ObjectivesShare
    /\ labels = <<>>
    /\ energy = <<>>
    /\ pc = "idle"
    /\ NoEngine
    /\ solver_calls = NoSolverCalls
    /\ error = "none"
    /\ edge_gt = NoEdgeGt
    /\ merge_log = <<>>
    /\ engines = [eng    |-> [i \in 1 .. 2 |-> IdleEngine],
                  forest |-> [k \in {ForestOf(1), ForestOf(2)} |->
                                 UfdNew(objective_.n_variables)],
                  shared |-> objective_]

ShareNext == EngineStep(1) \/ EngineStep(2)

SpecShare == ShareInit /\ [][ShareNext]_vars

(***************************************************************************)
(* Disjoint-set specification: any sequence of merge and find calls        *)
(***************************************************************************)
UfdInit ==
    /\ bufd = BoostUfdInit(UfdSize)
    /\ related = EquivClosure({})
    /\ lastOp = NoOp
    /\ objective_ = NoObjective
    /\ labels = <<>>
    /\ energy = <<>>
    /\ pc = "idle"
    /\ NoEngine
    /\ NoCallState

DoBoostMerge ==
    \E x \in Elems, y \in Elems :
        /\ pc = "idle"
        /\ bufd' = BoostMerge(bufd, x, y)
        /\ related' = EquivClosure(related \cup {<<x, y>>})
        /\ lastOp' = [op |-> "merge", x |-> x, y |-> y, ret |-> 0,
                      nonroot |-> (bufd.parents[x] # x \/ bufd.parents[y] # y),
                      oob |-> FALSE, changed |-> (bufd' # bufd)]
        /\ UNCHANGED objVars
        /\ UNCHANGED fuseVars
        /\ UNCHANGED errVars
        /\ UNCHANGED extVars

DoBoostFind ==
    \E x \in Elems :
        /\ pc = "idle"
        /\ bufd' = BoostFindState(bufd, x)
        /\ related' = related
        /\ lastOp' = [op |-> "find", x |-> x, y |-> x,
                      ret |-> BoostFind(bufd, x),
                      nonroot |-> (bufd.parents[x] # x),
                      oob |-> FALSE, changed |-> (bufd' # bufd)]
        /\ UNCHANGED objVars
        /\ UNCHANGED fuseVars
        /\ UNCHANGED errVars
        /\ UNCHANGED extVars

UfdNext == DoBoostMerge \/ DoBoostFind

SpecUfd == UfdInit /\ [][UfdNext]_vars

(***************************************************************************)
(* Disjoint-set specification with the merge calls logged                  *)
(***************************************************************************)
MaxMerges == 3

\* merge(x, y), with the call appended to the log
DoBoostMergeLogged ==
    \E x \in Elems, y \in Elems :
        /\ pc = "idle"
        /\ Len(merge_log) < MaxMerges
        /\ bufd' = BoostMerge(bufd, x, y)
        /\ related' = EquivClosure(related \cup {<<x, y>>})
        /\ lastOp' = [op |-> "merge", x |-> x, y |-> y, ret |-> 0,
                      nonroot |-> (bufd.parents[x] # x \/ bufd.parents[y] # y),
                      oob |-> FALSE, changed |-> (bufd' # bufd)]
        /\ merge_log' = Append(merge_log, <<x, y>>)
        /\ UNCHANGED objVars
        /\ UNCHANGED fuseVars
        /\ UNCHANGED errVars
        /\ UNCHANGED <<edge_gt, engines>>

MergeOrderNext == DoBoostMergeLogged

SpecMergeOrder == UfdInit /\ [][MergeOrderNext]_vars

(***************************************************************************)
(* Disjoint-set calls with an element id outside [0, n): find_set and link *)
(* index parents_ and ranks_ with the id as it is, so the first read is    *)
(* behind the arrays and the call does whatever that memory makes it do    *)
(***************************************************************************)

\* the element ids behind the arrays
OutOfRange == UfdSize .. (UfdSize + 1)

\* a find that checks its argument first
BoostFindChecked(u, elem) ==
    {[ret |-> 0, u |-> u, err |-> "out_of_range", oob |-> FALSE]}

\* BoostUfd::find(elem), elem >= n: parents_[elem] is read behind the array.
\* The word read is elem itself (nothing is written), or an element in range
\* (its root is returned and written to parents_[elem]), or the read faults.
BoostFindOutOfRange(u, elem) ==
    {[ret |-> elem, u |-> u, err |-> "none", oob |-> TRUE]}
    \cup {[ret |-> BoostFind(u, g), u |-> BoostFindState(u, g),
           err |-> "none", oob |-> TRUE] : g \in DOMAIN u.parents}
    \cup {[ret |-> 0, u |-> u, err |-> "segmentation_fault", oob |-> TRUE]}

\* a merge that checks its arguments first
BoostMergeChecked(u, elem1, elem2) ==
    {[u |-> u, err |-> "out_of_range", oob |-> FALSE]}

\* BoostUfd::merge(elem1, elem2) with an id >= n: the representative of the
\* id in range is found, the other read is behind the array; the link then
\* writes behind the array, or stores the out-of-range id in parents_, or
\* the access faults.
BoostMergeOutOfRange(u, elem1, elem2) ==
    LET inr == {e \in {elem1, elem2} : e \in DOMAIN u.parents}
        oor == CHOOSE e \in {elem1, elem2} : e \notin DOMAIN u.parents
    IN  {[u |-> u, err |-> "segmentation_fault", oob |-> TRUE]}
        \cup {[u |-> u, err |-> "none", oob |-> TRUE]}
        \cup {[u |-> BoostFindState(u, e), err |-> "none", oob |-> TRUE] : e \in inr}
        \cup {[u |-> [BoostFindState(u, e) EXCEPT !.parents[BoostFind(u, e)] = oor],
               err |-> "none", oob |-> TRUE] : e \in inr}

DoBoostFindOutOfRange ==
    /\ pc = "idle"
    /\ \E x \in OutOfRange :
        \E o \in BoostFindOutOfRange(bufd, x) :
            /\ bufd' = o.u
            /\ related' = related
            /\ lastOp' = [op |-> "find", x |-> x, y |-> x, ret |-> o.ret,
                          nonroot |-> FALSE, oob |-> o.oob,
                          changed |-> (o.u # bufd)]
            /\ error' = o.err
            /\ pc' = "returned"
            /\ UNCHANGED <<objective_, labels, energy, solver_calls>>
            /\ UNCHANGED fuseVars
            /\ UNCHANGED extVars

DoBoostMergeOutOfRange ==
    /\ pc = "idle"
    /\ \E xy \in ((Elems \cup OutOfRange) \X OutOfRange)
                  \cup (OutOfRange \X (Elems \cup OutOfRange)) :
        \E o \in BoostMergeOutOfRange(bufd, xy[1], xy[2]) :
            /\ bufd' = o.u
            /\ related' = related
            /\ lastOp' = [op |-> "merge", x |-> xy[1], y |-> xy[2], ret |-> 0,
                          nonroot |-> FALSE, oob |-> o.oob,
                          changed |-> (o.u # bufd)]
            /\ error' = o.err
            /\ pc' = "returned"
            /\ UNCHANGED <<objective_, labels, energy, solver_calls>>
            /\ UNCHANGED fuseVars
            /\ UNCHANGED extVars

UfdRangeNext ==
    \/ DoBoostMerge
    \/ DoBoostFind
    \/ DoBoostFindOutOfRange
    \/ DoBoostMergeOutOfRange

SpecUfdRange == UfdInit /\ [][UfdRangeNext]_vars

(***************************************************************************)
(* Evaluate specification: one objective, two labelings, one evaluate each *)
(***************************************************************************)
EvalInit ==
    /\ bufd = BoostUfdInit(UfdSize)
    /\ related = EquivClosure({})
    /\ lastOp = NoOp
    /\ objective_ \in Objectives2 \cup Objectives3
    /\ labels \in Labelings(objective_.shape) \X Labelings(objective_.shape)
    /\ energy = <<>>
    /\ pc = "idle"
    /\ NoEngine
    /\ NoCallState

DoEvaluate ==
    /\ pc = "idle"
    /\ energy' = <<evaluate(objective_, labels[1]), evaluate(objective_, labels[2])>>
    /\ pc' = "evaluated"
    /\ UNCHANGED <<objective_, labels>>
    /\ UNCHANGED ufdVars
    /\ UNCHANGED extVars
    /\ UNCHANGED fuseVars
    /\ UNCHANGED errVars
    /\ UNCHANGED extVars

EvalNext == DoEvaluate

SpecEval == EvalInit /\ [][EvalNext]_vars

\* the (p, k) pairs whose neighbor is inside the grid and labelled differently
CutPairs(obj, lab) ==
    {pk \in Coords(obj.shape) \X (0 .. (obj.n_offsets - 1)) :
        LET q == Shift(pk[1], obj.offsets[pk[2] + 1])
        IN  InShape(obj.shape, q) /\ lab[pk[1]] # lab[q]}

CutWeight(obj, lab) ==
    LET cut == CutPairs(obj, lab)
    IN  SumOver(cut, [pk \in cut |-> obj.weights[WKey(pk[1], pk[2])]])

\* L and M put the same positions together
SamePartition(shape, L, M) ==
    \A p \in Coords(shape), q \in Coords(shape) : (L[p] = L[q]) <=> (M[p] = M[q])

(***************************************************************************)
(* C4: for D = 2 and D = 3, evaluate(L) is the sum of weight(p, k) over    *)
(* the pairs (p, k) whose neighbor p + offset_k is inside the grid and     *)
(* carries another label; pairs with an outside neighbor add nothing.      *)
(***************************************************************************)
C4_EvaluateIsCutWeight ==
    pc = "evaluated" =>
        \A i \in 1 .. 2 : energy[i] = CutWeight(objective_, labels[i])

\* 2-D and 3-D: an evaluated labeling that cuts a counted pair while another
\* offset of the objective points outside the grid at some position
C4_Witness2 ==
    /\ pc = "evaluated"
    /\ objective_.dim = 2
    /\ CutPairs(objective_, labels[1]) # {}
    /\ energy[1] # 0
    /\ \E p \in Coords(objective_.shape), k \in 0 .. (objective_.n_offsets - 1) :
          /\ ~InShape(objective_.shape, Shift(p, objective_.offsets[k + 1]))
          /\ \E q \in Coords(objective_.shape) : labels[1][p] # labels[1][q]

C4_Witness3 ==
    /\ pc = "evaluated"
    /\ objective_.dim = 3
    /\ CutPairs(objective_, labels[1]) # {}
    /\ energy[1] # 0
    /\ \E p \in Coords(objective_.shape), k \in 0 .. (objective_.n_offsets - 1) :
          ~InShape(objective_.shape, Shift(p, objective_.offsets[k + 1]))

(***************************************************************************)
(* C5: two labelings that put the same positions together have the same    *)
(* energy.                                                                 *)
(***************************************************************************)
C5_RelabelInvariant ==
    (pc = "evaluated" /\ SamePartition(objective_.shape, labels[1], labels[2]))
        => energy[1] = energy[2]

\* two different labelings with the same partition and a nonzero energy
C5_Witness ==
    /\ pc = "evaluated"
    /\ labels[1] # labels[2]
    /\ SamePartition(objective_.shape, labels[1], labels[2])
    /\ energy[1] # 0

(***************************************************************************)
(* Claims about fuse                                                       *)
(***************************************************************************)

\* row-major node id of a grid position
NodeOf(shape, p) ==
    IF Len(shape) = 2 THEN p[1] * shape[2] + p[2]
    ELSE p[1] * shape[2] * shape[3] + p[2] * shape[3] + p[3]

\* the lowest energy among the candidates of the running call
MinCandEnergy ==
    LET es == {evaluate(objective_, labels[i]) : i \in 1 .. Len(labels)}
    IN  CHOOSE m \in es : \A e \in es : m <= e

(***************************************************************************)
(* C1: the labeling R returned by the 2-D two-candidate fuse(A, B) has     *)
(* evaluate(R) <= min(evaluate(A), evaluate(B)), for every objective, pair *)
(* of candidates and solver answer.                                        *)
(***************************************************************************)
C1_NonRegressionAB2 ==
    (pc = "done" /\ form = "ab" /\ objective_.dim = 2)
        => evaluate(objective_, res) <= MinCandEnergy

\* the contracted solution of a real contraction is returned and beats both
\* candidates, one of which has negative energy
C1_Witness ==
    /\ pc = "done" /\ form = "ab" /\ objective_.dim = 2
    /\ winner = "cc"
    /\ cc_graph.n > 1 /\ cc_graph.n < objective_.n_variables
    /\ evaluate(objective_, res) < MinCandEnergy
    /\ MinCandEnergy < 0

(***************************************************************************)
(* C2: the labeling R returned by the K-candidate fuse has                 *)
(* evaluate(R) <= min over i of evaluate(candidate_i).                     *)
(***************************************************************************)
C2_NonRegressionK ==
    (pc = "done" /\ form = "k")
        => evaluate(objective_, res) <= MinCandEnergy

(***************************************************************************)
(* C3: the labeling R returned by the 3-D two-candidate fuse(A, B) has     *)
(* evaluate(R) <= min(evaluate(A), evaluate(B)) for every grid shape.      *)
(***************************************************************************)
C3_NonRegressionAB3 ==
    (pc = "done" /\ form = "ab" /\ objective_.dim = 3)
        => evaluate(objective_, res) <= MinCandEnergy

(***************************************************************************)
(* C8: representativeLabeling maps the current roots one-to-one onto       *)
(* [0, numberOfSets()); the dense id fuse stores for a position lies in    *)
(* that range, and two positions get the same dense id exactly when they   *)
(* have the same root.                                                     *)
(***************************************************************************)
C8_DenseBijection ==
    pc \in {"dense", "built", "created", "optimized", "released"} =>
        LET roots == UfdRoots(ufd_)
            ids   == 0 .. (ufd_.numberOfSets - 1)
            pos   == Coords(objective_.shape)
        IN  /\ DOMAIN to_dense = roots
            /\ {to_dense[r] : r \in roots} = ids
            /\ \A r \in roots, s \in roots : to_dense[r] = to_dense[s] => r = s
            /\ \A p \in pos : res[p] \in ids
            /\ \A p \in pos, q \in pos :
                  (res[p] = res[q]) <=>
                      (UfdFind(ufd_, NodeOf(objective_.shape, p))
                           = UfdFind(ufd_, NodeOf(objective_.shape, q)))

\* a dense relabel of a real contraction whose roots are not already 0, 1, ...
C8_Witness ==
    /\ pc = "dense"
    /\ ufd_.numberOfSets > 1
    /\ ufd_.numberOfSets < objective_.n_variables
    /\ \E r \in UfdRoots(ufd_) : to_dense[r] # r

(***************************************************************************)
(* C9: every fuse call starts its agreement merge from N singletons, also  *)
(* after earlier calls on the same engine; the partition and the result of *)
(* a call depend only on the call's candidates, the objective and the      *)
(* solver's answer.                                                        *)
(***************************************************************************)

\* the forest a call builds from N singletons
FreshForest(obj, frm, lab) == MergedForest(obj, frm, lab, UfdNew(obj.n_variables))

\* what the two-candidate fuse returns when it starts from N singletons
FreshResultAB(obj, lab, nl) ==
    LET u     == FreshForest(obj, "ab", lab)
        td    == UfdRepresentativeLabeling(u)
        dense == DenseRes(obj, u, td)
        costs == CcCosts(obj, u, td, CcEdges(obj, u, td))
        br    == BranchAB(EvalNodeLabels(costs, nl),
                          evaluate(obj, lab[1]), evaluate(obj, lab[2]))
    IN  IF br = "cc" THEN MapBack(dense, nl)
        ELSE IF br = "a" THEN CopyCandidate(obj, lab[1])
        ELSE CopyCandidate(obj, lab[2])

C10_StrictImprovement ==
    pc = "done" =>
        /\ winner = "cc" => e_res < MinCandEnergy
        /\ e_res = MinCandEnergy =>
              (winner # "cc" /\ \E i \in 1 .. Len(labels) : res = labels[i])

(***************************************************************************)
(* C11: when the contracted solution does not strictly improve on the      *)
(* candidates, the array fuse returns equals, element for element, an      *)
(* original candidate of minimum energy, whatever non-negative label       *)
(* values the candidates hold, in the 2-D and in the 3-D engine.           *)
(***************************************************************************)

\* the stored element r holds the label value v
SameValue(r, v) == r >= 0 /\ v.hi = 0 /\ v.lo = r

\* the returned array equals candidate i element for element
ReturnsCandidate(i) ==
    IF objective_.dim = 2 THEN res = labels[i]
    ELSE \A p \in Coords(objective_.shape) : SameValue(res[p], labels[i][p])

C11_CandidateVerbatim ==
    (pc = "done" /\ form = "ab" /\ ~(e_res < MinCandEnergy)) =>
        \E i \in 1 .. 2 :
            /\ evaluate(objective_, labels[i]) = MinCandEnergy
            /\ ReturnsCandidate(i)

(***************************************************************************)
(* C12: for every objective and every labeling A, fuse(A, A) returns a     *)
(* labeling whose energy is exactly evaluate(A), whatever labeling the     *)
(* solver returns for the contracted problem.                              *)
(***************************************************************************)
C12_SelfFuseExact ==
    (pc = "done" /\ form = "ab" /\ labels[1] = labels[2])
        => evaluate(objective_, res) = evaluate(objective_, labels[1])

\* C12 as amended: the 2-D fuse(A, A) returns A itself, with energy
\* evaluate(A), unless the solver's answer has a contracted energy strictly
\* below evaluate(A); only then it returns that answer mapped back to the
\* grid. The energy of the returned labeling is never above evaluate(A).
C12_SelfFuseNoWorse ==
    (pc = "done" /\ form = "ab" /\ objective_.dim = 2 /\ labels[1] = labels[2]) =>
        LET e_a == evaluate(objective_, labels[1])
        IN  /\ evaluate(objective_, res) <= e_a
            /\ winner # "cc" => res = labels[1]
            /\ winner = "cc" => e_res < e_a
            /\ ~(e_res < e_a) => winner # "cc"

\* fuse(A, A) has returned a labeling strictly better than A, and another
\* solver answer would have tied with A
C12_Witness ==
    /\ pc = "done" /\ form = "ab" /\ objective_.dim = 2
    /\ labels[1] = labels[2]
    /\ winner = "cc"
    /\ cc_graph.n > 1
    /\ evaluate(objective_, res) < evaluate(objective_, labels[1])

(***************************************************************************)
(* C13: when all candidates are identical and constant, fuse still         *)
(* proceeds: the contracted graph has exactly one node and no plain or     *)
(* lifted edge, the solver is created and invoked once on it, and fuse     *)
(* returns a labeling of the grid shape; the engine itself raises nothing  *)
(* (an error, if any, is the one the factory or the solver threw).         *)
(***************************************************************************)

\* every candidate of the running call gives every position the same label
AllConstantSame ==
    /\ Len(labels) > 0
    /\ \A i \in 1 .. Len(labels), j \in 1 .. Len(labels) :
          \A p \in Coords(objective_.shape), q \in Coords(objective_.shape) :
              labels[i][p] = labels[j][q]

C13_TrivialGraphProceeds ==
    AllConstantSame =>
        /\ pc \in {"merged", "dense"} => ufd_.numberOfSets = 1
        /\ pc \in {"built", "created", "optimized", "released", "done"} =>
              /\ cc_graph.n = 1
              /\ cc_graph.edges = {}
              /\ DOMAIN cc_obj = {}
        /\ pc \in {"created", "optimized", "released", "done"} =>
              solver_calls.create = 1
        /\ pc \in {"optimized", "released", "done"} =>
              /\ solver_calls.optimize = 1
              /\ DOMAIN cc_node_labels = {0}
        /\ pc = "done" =>
              /\ DOMAIN res = Coords(objective_.shape)
              /\ error = "none"
        /\ pc = "raised" => (error # "none" /\ error = solver_calls.thrown)

\* a fuse of two identical constant labelings of a grid of several
\* positions has returned
C13_Witness ==
    /\ pc = "done"
    /\ AllConstantSame
    /\ objective_.n_variables > 1
    /\ cc_graph.n = 1
    /\ solver = "deleted"

(***************************************************************************)
(* C14: the Solver created by the factory inside optimize and inside fuse  *)
(* is released exactly once on every exit path of the call, also when the  *)
(* solver's optimize raises an error.                                      *)
(***************************************************************************)

\* the running optimize or fuse call has returned or raised
CallExited == pc \in {"done", "o_done", "raised"}

C14_SolverReleased ==
    /\ solver_calls.release <= 1
    /\ (CallExited /\ solver # "none") =>
          (solver = "deleted" /\ solver_calls.release = 1)

(***************************************************************************)
(* C15: in every optimize or fuse call the factory's create is called at   *)
(* most once and the solver's optimize at most once; when either raises,   *)
(* the error reaches the caller unchanged, no second attempt is made and   *)
(* no result labeling is returned.                                         *)
(***************************************************************************)
C15_NoRetryNoRecovery ==
    /\ solver_calls.create <= 1
    /\ solver_calls.optimize <= 1
    /\ solver_calls.thrown # "none" =>
          /\ pc = "raised"
          /\ error = solver_calls.thrown
          /\ winner = "none"
          /\ solver_calls.release = 0
    /\ pc \in {"done", "o_done"} =>
          (error = "none" /\ solver_calls.create = 1 /\ solver_calls.optimize = 1)
    /\ pc = "raised" => error \in SolverErrors

\* the solver's optimize has raised inside a fuse call
C15_Witness ==
    /\ pc = "raised"
    /\ form = "ab"
    /\ solver_calls.create = 1
    /\ solver_calls.optimize = 1
    /\ error = "runtime_error"

(***************************************************************************)
(* C16: constructing an Objective from a weight tensor and an offset       *)
(* matrix whose dimensions do not match (the number of offset rows differs *)
(* from the last weight extent, or the offset vectors do not have D        *)
(* components) fails with a configuration error and yields no usable       *)
(* Objective.                                                              *)
(***************************************************************************)

\* the offset matrix of obj does not fit its weight tensor
Mismatched(obj) ==
    \/ Len(obj.offsets) # obj.n_offsets
    \/ \E k \in 1 .. Len(obj.offsets) : Len(obj.offsets[k]) # obj.dim

C16_MismatchRejected ==
    /\ pc \in {"constructed", "evaluated", "crashed"} => ~Mismatched(objective_)
    /\ pc = "raised" => (error = "configuration_error" /\ objective_ = NoObjective)

(***************************************************************************)
(* C17: find or merge of the disjoint-set engine with an element id        *)
(* outside [0, n) fails fast with an error and leaves the parent and rank  *)
(* arrays unchanged; it never reads or writes the forest out of range.     *)
(***************************************************************************)
C17_RangeChecked ==
    (lastOp.op \in {"find", "merge"}
        /\ (lastOp.x \notin Elems \/ lastOp.y \notin Elems)) =>
            /\ error = "out_of_range"
            /\ ~lastOp.oob
            /\ ~lastOp.changed

(***************************************************************************)
(* C18: edgeGroundTruth returns a boolean tensor of shape grid-shape + [K] *)
(* in which entry (p, k) is true exactly when p + offset_k lies inside the *)
(* grid and the ground-truth labels at p and at p + offset_k differ; every *)
(* entry whose neighbor is outside the grid is false.                      *)
(***************************************************************************)
C18_EdgeGroundTruth ==
    pc = "gt_done" =>
        /\ DOMAIN edge_gt.result =
              {WKey(p, k) : p \in Coords(edge_gt.shape),
                            k \in 0 .. (Len(edge_gt.offsets) - 1)}
        /\ \A p \in Coords(edge_gt.shape), k \in 0 .. (Len(edge_gt.offsets) - 1) :
              LET q == Shift(p, edge_gt.offsets[k + 1])
              IN  edge_gt.result[WKey(p, k)] =
                      (InShape(edge_gt.shape, q) /\ edge_gt.gt[p] # edge_gt.gt[q])

(***************************************************************************)
(* C19: two fusion engines that share one Objective and run fuse calls     *)
(* interleaved in any order each return the labeling they would return     *)
(* when run alone; a fuse call leaves the Objective as it was and changes  *)
(* no forest but the one of its own engine.                                *)
(***************************************************************************)
C19_SharedObjective ==
    /\ engines.shared = objective_
    /\ \A i \in 1 .. 2 :
          LET e == engines.eng[i]
              u == engines.forest[ForestOf(i)]
          IN  /\ e.pc = "idle" => u = UfdNew(objective_.n_variables)
              /\ e.pc = "reset" => u = UfdNew(objective_.n_variables)
              /\ e.pc = "merged" => u = FreshForest(objective_, "ab", e.labels)
              /\ e.pc = "done" =>
                    e.res = FreshResultAB(objective_, e.labels, e.cc_node_labels)

\* engine 1 has returned a contracted solution while engine 2, working on
\* other candidates, is between its agreement merge and its graph build
C19_Witness ==
    /\ engines.eng[1].pc = "done"
    /\ engines.eng[1].winner = "cc"
    /\ engines.eng[2].pc \in {"merged", "dense"}
    /\ engines.eng[2].labels # engines.eng[1].labels
    /\ engines.forest[ForestOf(1)] # engines.forest[ForestOf(2)]

(***************************************************************************)
(* C20: after the agreement merge of the two-candidate fuse (2-D and 3-D)  *)
(* the nodes of two grid positions are in the same set exactly when a path *)
(* of single-axis nearest-neighbor steps joins them in which every step    *)
(* connects two positions with equal labels in A and equal labels in B;    *)
(* the offset list plays no part in merging.                               *)
(***************************************************************************)

\* the single-axis nearest-neighbor steps whose ends agree in A and in B
AgreeingSteps(shape, la, lb) ==
    {pq \in Coords(shape) \X Coords(shape) :
        /\ \E d \in 1 .. Len(shape) : pq[2] = [pq[1] EXCEPT ![d] = @ + 1]
        /\ la[pq[1]] = la[pq[2]]
        /\ lb[pq[1]] = lb[pq[2]]}

RECURSIVE PathClose(_, _)
PathClose(S, R) ==
    LET step == R \cup {ac \in S \X S :
                            \E b \in S : <<ac[1], b>> \in R /\ <<b, ac[2]>> \in R}
    IN  IF step = R THEN R ELSE PathClose(S, step)

\* the pairs of positions joined by a path of steps of R, in either direction
JoinedBy(S, R) ==
    PathClose(S, R \cup {<<pq[2], pq[1]>> : pq \in R} \cup {<<p, p>> : p \in S})

C20_MergeIsAgreementClosure ==
    (pc = "merged" /\ form = "ab") =>
        LET pos    == Coords(objective_.shape)
            joined == JoinedBy(pos, AgreeingSteps(objective_.shape,
                                                  labels[1], labels[2]))
        IN  \A p \in pos, q \in pos :
                (UfdFind(ufd_, NodeAt(objective_.shape, p))
                    = UfdFind(ufd_, NodeAt(objective_.shape, q)))
                <=> (<<p, q>> \in joined)

\* 3-D: two positions linked by an offset carry equal labels in A and in B
\* and stay in different sets, no path of agreeing steps joining them
C20_Witness ==
    /\ pc = "merged" /\ form = "ab" /\ objective_.dim = 3
    /\ \E p \in Coords(objective_.shape), k \in 1 .. objective_.n_offsets :
          LET q == Shift(p, objective_.offsets[k])
          IN  /\ InShape(objective_.shape, q)
              /\ labels[1][p] = labels[1][q]
              /\ labels[2][p] = labels[2][q]
              /\ UfdFind(ufd_, NodeAt(objective_.shape, p))
                    # UfdFind(ufd_, NodeAt(objective_.shape, q))

(***************************************************************************)
(* C21: in the 2-D K-candidate fuse two axis-neighbor positions are in the *)
(* same set after the agreement merge exactly when all K candidates give   *)
(* them equal labels; a pair on which at least one candidate disagrees     *)
(* (two of three agree, the third does not) is not merged.                 *)
(***************************************************************************)

\* the pairs (p, q) of positions with q one step after p along one axis
AxisPairs(shape) ==
    {pq \in Coords(shape) \X Coords(shape) :
        \E d \in 1 .. Len(shape) : pq[2] = [pq[1] EXCEPT ![d] = @ + 1]}

SameSet(shape, u, p, q) ==
    UfdFind(u, NodeAt(shape, p)) = UfdFind(u, NodeAt(shape, q))

AllAgree(lab, p, q) == \A k \in 1 .. Len(lab) : lab[k][p] = lab[k][q]

C21_MergeNeedsAllK ==
    (pc = "merged" /\ form = "k" /\ objective_.dim = 2) =>
        \A pq \in AxisPairs(objective_.shape) :
            SameSet(objective_.shape, ufd_, pq[1], pq[2])
                <=> AllAgree(labels, pq[1], pq[2])

\* K = 3: on one neighbor pair two candidates agree and the third does not,
\* and the pair is apart; another pair, on which all three agree, is merged
C21_Witness ==
    /\ pc = "merged" /\ form = "k" /\ objective_.dim = 2
    /\ Len(labels) = 3
    /\ \E pq \in AxisPairs(objective_.shape) :
          /\ Cardinality({k \in 1 .. 3 : labels[k][pq[1]] = labels[k][pq[2]]}) = 2
          /\ ~SameSet(objective_.shape, ufd_, pq[1], pq[2])
    /\ \E pq \in AxisPairs(objective_.shape) :
          /\ AllAgree(labels, pq[1], pq[2])
          /\ SameSet(objective_.shape, ufd_, pq[1], pq[2])

(***************************************************************************)
(* C22: in the 3-D K-candidate agreement merge every axis is checked on    *)
(* its own: for p with p + e_d inside the grid the labels of p and of      *)
(* p + e_d are compared in all K candidates and on agreement node(p) is    *)
(* merged with the row-major node of p + e_d; no other pair of nodes is    *)
(* merged and no label is read outside the grid.                           *)
(***************************************************************************)
\* the forests u and v hold the same sets
SameSets(u, v) ==
    \A x \in DOMAIN u.parents, y \in DOMAIN u.parents :
        (UfdFind(u, x) = UfdFind(u, y)) <=> (UfdFind(v, x) = UfdFind(v, y))

MergedAsPerAxis3 ==
    (pc = "merged" /\ form = "k" /\ objective_.dim = 3) =>
        SameSets(ufd_, MergeUfd2Loop3PerAxis(objective_.shape, labels,
                                             UfdNew(objective_.n_variables),
                                             1, <<>>))

C22_PerAxisMerge3 ==
    /\ MergedAsPerAxis3
    /\ (pc = "merged" /\ form = "k" /\ objective_.dim = 3) =>
            MergeUfd2OutsideReads(objective_.shape) = {}

(***************************************************************************)
(* C23: after the agreement merge of any fuse form (two candidates or K,   *)
(* 2-D or 3-D) every candidate gives the same label to any two positions   *)
(* whose nodes are in one set: each candidate is constant on each          *)
(* component.                                                              *)
(***************************************************************************)
C23_CandidatesConstantOnSets ==
    (pc = "merged" /\ form \in {"ab", "k"}) =>
        \A p \in Coords(objective_.shape), q \in Coords(objective_.shape) :
            SameSet(objective_.shape, ufd_, p, q) => AllAgree(labels, p, q)

(***************************************************************************)
(* C24: in the contracted objective built by fuse the lifted cost between  *)
(* two distinct components c1 and c2 is the sum of weight(p, k) over every *)
(* (p, k) whose neighbor q = p + offset_k is inside the grid and has       *)
(* {component(p), component(q)} = {c1, c2}, both directions and every      *)
(* offset counted; pairs inside one component and pairs whose q is outside *)
(* the grid add nothing.                                                   *)
(***************************************************************************)

\* the dense component of position p
ComponentOf(p) == to_dense[UfdFind(ufd_, NodeAt(objective_.shape, p))]

\* the (p, k) whose neighbor is inside the grid and that join c1 and c2
Collapsing(c1, c2) ==
    {pk \in Coords(objective_.shape) \X (0 .. (objective_.n_offsets - 1)) :
        LET q == Shift(pk[1], objective_.offsets[pk[2] + 1])
        IN  /\ InShape(objective_.shape, q)
            /\ {ComponentOf(pk[1]), ComponentOf(q)} = {c1, c2}}

CollapsedWeight(c1, c2) ==
    SumOver(Collapsing(c1, c2),
            [pk \in Collapsing(c1, c2) |-> objective_.weights[WKey(pk[1], pk[2])]])

LiftedCost(c1, c2) == IF {c1, c2} \in DOMAIN cc_obj THEN cc_obj[{c1, c2}] ELSE 0

ContractedBuilt ==
    /\ form \in {"ab", "k"}
    /\ pc \in {"built", "created", "optimized", "released", "done"}

C24_LiftedCostIsCollapsedSum ==
    ContractedBuilt =>
        /\ \A c1 \in 0 .. (cc_graph.n - 1), c2 \in 0 .. (cc_graph.n - 1) :
              c1 # c2 => LiftedCost(c1, c2) = CollapsedWeight(c1, c2)
        /\ \A e \in DOMAIN cc_obj :
              /\ Cardinality(e) = 2
              /\ e \subseteq 0 .. (cc_graph.n - 1)

\* two grid edges, one of each offset and direction, collapse onto one pair
\* of components, while another in-grid pair lies inside one component
C24_Witness ==
    /\ ContractedBuilt
    /\ pc = "built"
    /\ \E c1 \in 0 .. (cc_graph.n - 1), c2 \in 0 .. (cc_graph.n - 1) :
          /\ c1 # c2
          /\ Cardinality(Collapsing(c1, c2)) >= 2
          /\ Cardinality({pk[2] : pk \in Collapsing(c1, c2)}) = 2
          /\ LiftedCost(c1, c2) # 0
    /\ \E c \in 0 .. (cc_graph.n - 1) : Collapsing(c, c) # {}

(***************************************************************************)
(* C25: the sparse objective built by optimize has, between node(p) and    *)
(* node(q) (row-major ids), the sum of weight(p, k) over all (p, k) with   *)
(* q = p + offset_k inside the grid that map to that pair of nodes, and no *)
(* cost from pairs whose q is outside the grid; the running node counter   *)
(* used as node(p) is the row-major id of p at every iteration, for D = 2  *)
(* and D = 3.                                                              *)
(***************************************************************************)

\* the positions in the order FillObjHelper<DIM>::fill visits them
FillObjVisits(obj) ==
    IF obj.dim = 2 THEN Loop2(obj.shape[1], obj.shape[2])
    ELSE Loop3(obj.shape[1], obj.shape[2], obj.shape[3])

\* the (p, k) whose neighbor is inside the grid and that join nodes a and b
MappingTo(obj, a, b) ==
    {pk \in Coords(obj.shape) \X (0 .. (obj.n_offsets - 1)) :
        LET q == Shift(pk[1], obj.offsets[pk[2] + 1])
        IN  /\ InShape(obj.shape, q)
            /\ {NodeAt(obj.shape, pk[1]), NodeAt(obj.shape, q)} = {a, b}}

MappedWeight(obj, a, b) ==
    SumOver(MappingTo(obj, a, b),
            [pk \in MappingTo(obj, a, b) |-> obj.weights[WKey(pk[1], pk[2])]])

OptimizeBuilt ==
    /\ form \in {"optimize", "optimize_verbose"}
    /\ pc \in {"o_built", "o_created", "o_optimized", "o_done"}

C25_SparseObjective ==
    OptimizeBuilt =>
        /\ \A a \in 0 .. (objective_.n_variables - 1),
              b \in 0 .. (objective_.n_variables - 1) :
              a # b => LiftedCost(a, b) = MappedWeight(objective_, a, b)
        /\ \A e \in DOMAIN cc_obj :
              e \in GridEdges(objective_.shape)
              \/ \E a \in e, b \in e : a # b /\ MappingTo(objective_, a, b) # {}
        /\ Len(FillObjVisits(objective_)) = objective_.n_variables
        /\ \A i \in 1 .. Len(FillObjVisits(objective_)) :
              NodeAt(objective_.shape, FillObjVisits(objective_)[i]) = i - 1

\* 3-D, grid extents that differ: the weights of two offsets of opposite
\* direction add up on one pair of nodes, and another (p, k) leaves the grid
C25_Witness ==
    /\ OptimizeBuilt
    /\ pc = "o_built"
    /\ objective_.dim = 3
    /\ objective_.shape[2] # objective_.shape[3]
    /\ \E a \in 0 .. (objective_.n_variables - 1),
          b \in 0 .. (objective_.n_variables - 1) :
          /\ a # b
          /\ Cardinality(MappingTo(objective_, a, b)) = 2
          /\ cc_obj[{a, b}] = MappedWeight(objective_, a, b)
          /\ cc_obj[{a, b}] # 0
    /\ \E p \in Coords(objective_.shape), k \in 1 .. objective_.n_offsets :
          ~InShape(objective_.shape, Shift(p, objective_.offsets[k]))

(***************************************************************************)
(* C26: the partition the merges produce does not depend on their order:   *)
(* the same merge(x, y) calls applied in any permutation, from N           *)
(* singletons, give the same equivalence classes (only the chosen roots    *)
(* may differ).                                                            *)
(***************************************************************************)

\* the orders in which n calls can be made
CallOrders(n) ==
    {f \in [1 .. n -> 1 .. n] : \A i \in 1 .. n, j \in 1 .. n : f[i] = f[j] => i = j}

\* the forest after the calls of log are made in the order f, from the i-th on
RECURSIVE MergeInOrder(_, _, _, _)
MergeInOrder(u, log, f, i) ==
    IF i > Len(log) THEN u
    ELSE MergeInOrder(BoostMerge(u, log[f[i]][1], log[f[i]][2]), log, f, i + 1)

\* the equivalence classes of forest u, as the set of related pairs
ClassesOf(u) ==
    {xy \in Elems \X Elems : BoostFind(u, xy[1]) = BoostFind(u, xy[2])}

C26_MergeOrderIndependent ==
    \A f \in CallOrders(Len(merge_log)) :
        ClassesOf(MergeInOrder(BoostUfdInit(UfdSize), merge_log, f, 1))
            = ClassesOf(bufd)

\* three calls that join three elements, and an order of the same calls that
\* ends with another root for them
C26_Witness ==
    /\ Len(merge_log) = 3
    /\ Cardinality({merge_log[i] : i \in 1 .. 3}) = 3
    /\ \E x \in Elems :
          Cardinality({y \in Elems : BoostFind(bufd, y) = BoostFind(bufd, x)}) >= 3
    /\ \E f \in CallOrders(3) :
          LET v == MergeInOrder(BoostUfdInit(UfdSize), merge_log, f, 1)
          IN  \E x \in Elems : BoostFind(v, x) # BoostFind(bufd, x)

(***************************************************************************)
(* C27: in the 2-D engine, for every component labeling the solver may     *)
(* return, the energy computed on the contracted objective equals evaluate *)
(* of the grid labeling that gives each pixel the label of its component;  *)
(* the energy the selection step compares with the candidates is the       *)
(* Objective-level energy of the labeling fuse would return.               *)
(***************************************************************************)
C27_ContractedEnergyIsEvaluate ==
    (form \in {"ab", "k"} /\ objective_.dim = 2) =>
        /\ pc = "released" =>
              e_res = evaluate(objective_, MapBack(res, cc_node_labels))
        /\ (pc = "done" /\ winner = "cc") =>
              e_res = evaluate(objective_, res)

\* the solver separates two components joined by several grid edges and
\* keeps two other components together; the energy is not zero
C27_Witness ==
    /\ form = "ab" /\ objective_.dim = 2
    /\ pc = "released"
    /\ cc_graph.n >= 3
    /\ \E c1 \in 0 .. (cc_graph.n - 1), c2 \in 0 .. (cc_graph.n - 1) :
          /\ c1 # c2
          /\ cc_node_labels[c1] # cc_node_labels[c2]
          /\ Cardinality(Collapsing(c1, c2)) >= 2
    /\ \E c1 \in 0 .. (cc_graph.n - 1), c2 \in 0 .. (cc_graph.n - 1) :
          /\ c1 # c2
          /\ cc_node_labels[c1] = cc_node_labels[c2]
          /\ Collapsing(c1, c2) # {}
    /\ e_res # 0

(***************************************************************************)
(* C28: in the lifted-cost fill of the 3-D engine the loop visits every    *)
(* grid position (p0, p1, p2), 0 <= p2 < shape[2], exactly once, reads     *)
(* weights only inside the weight tensor, and its running node counter is  *)
(* the row-major id of the position at every visit, so the contracted      *)
(* energy equals evaluate of the mapped-back labeling as in 2-D.           *)
(***************************************************************************)
C28_Fill3VisitsGrid ==
    (form \in {"ab", "k"} /\ objective_.dim = 3 /\ ContractedBuilt) =>
        LET visits == FillNest3(objective_.shape)
        IN  /\ \A p \in Coords(objective_.shape) :
                  Cardinality({i \in 1 .. Len(visits) : visits[i] = p}) = 1
            /\ \A i \in 1 .. Len(visits) :
                  /\ InShape(objective_.shape, visits[i])
                  /\ NodeAt(objective_.shape, visits[i]) = i - 1
            /\ pc = "released" =>
                  e_res = evaluate(objective_, MapBack(res, cc_node_labels))

\* the contracted energy alone, for grids the loop nest happens to cover
Fill3EnergyOnly ==
    (form \in {"ab", "k"} /\ objective_.dim = 3 /\ pc = "released"
        /\ FillNest3(objective_.shape) = FillNest3Grid(objective_.shape)) =>
        e_res = evaluate(objective_, MapBack(res, cc_node_labels))

(***************************************************************************)
(* C29: for every objective, every pair of candidates A and B and the same *)
(* solver answer, the two-candidate fuse(A, B) and the K-candidate fuse of *)
(* A and B stacked along the trailing axis (K = 2, A first) return the     *)
(* same labeling, also when evaluate(A) = evaluate(B) and A differs from B.*)
(***************************************************************************)
C29_TwoFormsAgree ==
    (pc = "done" /\ form = "ab" /\ objective_.dim = 2) =>
        res = FuseKResult(objective_, labels, cc_node_labels)

\* the two forms on candidates of different energy
TwoFormsAgreeOffTie ==
    (pc = "done" /\ form = "ab" /\ objective_.dim = 2
        /\ energy[1] # energy[2]) =>
        res = FuseKResult(objective_, labels, cc_node_labels)

(***************************************************************************)
(* C30: within one fuse call the steps happen in this order, each exactly  *)
(* once: forest reset, agreement merge, dense relabel, contracted graph    *)
(* and lifted-cost build, factory create, solver optimize, contracted      *)
(* energy evaluation, solver release, selection; nothing is merged after   *)
(* the dense relabel, so the graph build, the solver and the selection     *)
(* see one partition.                                                      *)
(***************************************************************************)

\* the step that follows each step of a call that raises nothing
StepAfter ==
    [idle |-> "reset", reset |-> "merged", merged |-> "dense", dense |-> "built",
     built |-> "created", created |-> "optimized", optimized |-> "released",
     released |-> "done", done |-> "reset", raised |-> "reset"]

C30_StepOrder ==
    [][/\ pc' # pc => (pc' = StepAfter[pc]
                        \/ (pc \in {"built", "created"} /\ pc' = "raised"))
       /\ pc' = "reset" => ufd_' = UfdNew(objective_.n_variables)
       /\ pc \in {"merged", "dense", "built", "created", "optimized", "released"}
             => SameSets(ufd_, ufd_')
       /\ pc' = "created" => solver_calls' = [NoSolverCalls EXCEPT !.create = 1]
       /\ pc' = "optimized" =>
             /\ solver_calls' = [NoSolverCalls EXCEPT !.create = 1, !.optimize = 1]
             /\ solver' = "live"
       /\ pc' = "released" =>
             /\ solver_calls' = [NoSolverCalls EXCEPT !.create = 1, !.optimize = 1,
                                                      !.release = 1]
             /\ e_res' = EvalNodeLabels(cc_obj, cc_node_labels)
       /\ pc' = "done" =>
             /\ solver_calls' = solver_calls
             /\ cc_graph'.n = ufd_'.numberOfSets
             /\ res \in [Coords(objective_.shape) -> 0 .. (cc_graph.n - 1)]
             /\ \A p \in Coords(objective_.shape), q \in Coords(objective_.shape) :
                   (res[p] = res[q]) <=> SameSet(objective_.shape, ufd_', p, q)
      ]_vars

\* the second call on an engine has gone through all its steps and returned
\* a contracted solution over a partition that is neither trivial nor full
C30_Witness ==
    /\ pc = "done"
    /\ calls = 2
    /\ winner = "cc"
    /\ cc_graph.n > 1
    /\ cc_graph.n < objective_.n_variables
    /\ solver = "deleted"

(***************************************************************************)
(* C6: after any sequence of merge and find calls, finding the result of   *)
(* find(x) again (in the forest that find(x) left behind) returns the same *)
(* element, for every element x.                                           *)
(***************************************************************************)
C6_FindIdempotent ==
    \A x \in Elems :
        LET r  == BoostFind(bufd, x)
            u1 == BoostFindState(bufd, x)
        IN  BoostFind(u1, r) = r

\* a find has just run on a non-root element that has a child of its own
C6_Witness ==
    /\ lastOp.op = "find"
    /\ lastOp.nonroot
    /\ lastOp.ret # lastOp.x
    /\ \E z \in Elems : z # lastOp.x /\ z # lastOp.ret
                        /\ bufd.parents[z] = lastOp.x

(***************************************************************************)
(* C7: find(x) = find(y) exactly when x and y are related by the           *)
(* equivalence closure of the merged pairs, and find(x) = find(y) right    *)
(* after merge(x, y), also when x or y was not a root.                     *)
(***************************************************************************)
C7_FindReflectsClosure ==
    /\ \A x \in Elems, y \in Elems :
          (BoostFind(bufd, x) = BoostFind(bufd, y)) <=> (<<x, y>> \in related)
    /\ lastOp.op = "merge" =>
          BoostFind(bufd, lastOp.x) = BoostFind(bufd, lastOp.y)

\* a merge has just joined two sets through an element that was not a root
C7_Witness ==
    /\ lastOp.op = "merge"
    /\ lastOp.nonroot
    /\ lastOp.x # lastOp.y
    /\ BoostFind(bufd, lastOp.x) = BoostFind(bufd, lastOp.y)
    /\ \E z \in Elems : <<z, lastOp.x>> \notin related

====
